---- MODULE Spec2Model ----
(***************************************************************************)
(* Commitment Ledger (contracts/commitment_core) with the asset-transfer   *)
(* and receipt (contracts/commitment_nft) components it calls.             *)
(*                                                                         *)
(* Every entry point is one atomic action: the host runs a call to         *)
(* completion and either commits all of its writes or none of them.  A     *)
(* handler is an operator from the ledger state (a "world" record) and the *)
(* call to a result [err, w, val, nested]; err = "" is a normal return,    *)
(* anything else is the panic message.  External callees may call back     *)
(* into the ledger while a call is in flight: the call record's cb field   *)
(* says at which interaction and with which nested call.                   *)
(*                                                                         *)
(* create_commitment is modelled from the guarded body of the function     *)
(* (lib.rs 346-465); the receipt component is called through the seven     *)
(* argument mint of the call site (lib.rs 106-129).                        *)
(***************************************************************************)
EXTENDS Integers, Sequences, FiniteSets, TLC

VARIABLES
    commitments,          \* DataKey::Commitment(id) -> Commitment | NoCommitment
    owner_commitments,    \* DataKey::OwnerCommitments(owner) -> Vec<id>
    total_commitments,    \* DataKey::TotalCommitments
    total_value_locked,   \* DataKey::TotalValueLocked
    reentrancy_guard,     \* DataKey::ReentrancyGuard
    rl_limit,             \* rate limiter: function -> configured limit
    rl_count,             \* rate limiter: (key, function) -> window state
    balance,              \* asset ledger: address -> amount
    token_counter,        \* receipt component: DataKey::TokenCounter
    nfts,                 \* receipt component: token_id + 1 -> CommitmentNFT
    owner_balance,        \* receipt component: DataKey::OwnerBalance(address)
    attestations,         \* attestation engine: ("ATTS", id) -> Vec<Attestation>
    fees,                 \* attestation engine: ("FEES", id) -> total fees
    health_metrics,       \* attestation engine: ("HEALTH", id) -> HealthMetrics
    authorized_recorders, \* attestation engine: ("AUTHREC", address) set to true
    engine_admin,         \* attestation engine: "ADMIN"
    engine_core,          \* attestation engine: "CORE"
    timelock_admin,       \* time lock: StorageKey::Admin
    action_counter,       \* time lock: StorageKey::ActionCounter
    actions,              \* time lock: StorageKey::Action(id) -> QueuedAction
    action_ids,           \* time lock: StorageKey::ActionIds
    oracle_admin,         \* price oracle: DataKey::Admin
    oracle_whitelist,     \* price oracle: the addresses with DataKey::OracleWhitelist set
    prices,               \* price oracle: DataKey::Price(asset) -> PriceData
    max_staleness_seconds, \* price oracle: DataKey::OracleConfig
    now,                  \* ledger timestamp
    ret                   \* outcome of the last call

vars == <<commitments, owner_commitments, total_commitments, total_value_locked,
          reentrancy_guard, rl_limit, rl_count, balance, token_counter, nfts,
          owner_balance,
          attestations, fees, health_metrics, authorized_recorders, engine_admin,
          engine_core,
          timelock_admin, action_counter, actions, action_ids,
          oracle_admin, oracle_whitelist, prices, max_staleness_seconds,
          now, ret>>

\* the storage of the price oracle
oracle_storage == <<oracle_admin, oracle_whitelist, prices, max_staleness_seconds>>

\* the storage of the time lock
timelock_storage == <<timelock_admin, action_counter, actions, action_ids>>

\* the storage of the attestation engine
engine_storage ==
    <<attestations, fees, health_metrics, authorized_recorders, engine_admin,
      engine_core>>

-----------------------------------------------------------------------------
(* Principals, identifiers and input sets *)

Owners == {"alice", "bob"}
Admin == "admin"
Pool == "pool"
Core == "core"
Addresses == Owners \cup {Admin, Pool, Core}

Ids == {"commitment_", "c_other"}

SecondsPerDay == 86400
Times == {0, 1, 86400, 86401}

AllocAmounts == {0, 601, 1000}
InitialOwnerBalance == 1000

ValidTypes == {"safe", "balanced", "aggressive"}

Rules(d, m, ty, p) ==
    [duration_days |-> d, max_loss_percent |-> m, commitment_type |-> ty,
     early_exit_penalty |-> p, min_fee_threshold |-> 100]

\* (amount, rules) offered to create_commitment
ValidInputs ==
    { <<1000, Rules(1, 10, "safe", 5)>>, <<1000, Rules(1, 10, "balanced", 10)>> }
InvalidInputs ==
    { <<0, Rules(1, 10, "safe", 5)>>, <<-1, Rules(1, 10, "safe", 5)>>,
      <<2000, Rules(1, 10, "safe", 5)>>,
      <<1000, Rules(0, 10, "safe", 5)>>, <<1000, Rules(1, 101, "safe", 5)>>,
      <<1000, Rules(1, 10, "growth", 5)>> }

Functions == {"create", "upd_val", "alloc"}
\* the functions the admin puts a limit on
LimitedFunctions == {"create", "alloc"}
RLKeys == (Owners \X {"create"}) \cup {<<Core, "upd_val">>, <<Pool, "alloc">>}
NoLimit == [window_seconds |-> 0, max_calls |-> 0]
NoCount == [start |-> 0, count |-> 0]
LimitChoices == {[window_seconds |-> 60, max_calls |-> 1]}

NoCommitment == [status |-> "none"]
active_status == "active"

-----------------------------------------------------------------------------
(* The world: everything a call can write and the host rolls back *)

World ==
    [commitments |-> commitments, owner_commitments |-> owner_commitments,
     total_commitments |-> total_commitments,
     total_value_locked |-> total_value_locked,
     reentrancy_guard |-> reentrancy_guard,
     rl_limit |-> rl_limit, rl_count |-> rl_count,
     balance |-> balance, token_counter |-> token_counter, nfts |-> nfts,
     owner_balance |-> owner_balance]

Commit(w) ==
    /\ commitments' = w.commitments
    /\ owner_commitments' = w.owner_commitments
    /\ total_commitments' = w.total_commitments
    /\ total_value_locked' = w.total_value_locked
    /\ reentrancy_guard' = w.reentrancy_guard
    /\ rl_limit' = w.rl_limit
    /\ rl_count' = w.rl_count
    /\ balance' = w.balance
    /\ token_counter' = w.token_counter
    /\ nfts' = w.nfts
    /\ owner_balance' = w.owner_balance

Ok(w, val, nested) == [err |-> "", w |-> w, val |-> val, nested |-> nested]
Panic(w, msg, nested) == [err |-> msg, w |-> w, val |-> "", nested |-> nested]

NoCallback == [at |-> "none"]

-----------------------------------------------------------------------------
(* Storage helpers, lib.rs 131-164 *)

read_commitment(w, commitment_id) == w.commitments[commitment_id]

set_commitment(w, commitment) ==
    [w EXCEPT !.commitments[commitment.commitment_id] = commitment]

has_commitment(w, commitment_id) == w.commitments[commitment_id] # NoCommitment

\* faulty variant: the guard is never consulted
require_no_reentrancy_off(w) == TRUE

require_no_reentrancy(w) == ~w.reentrancy_guard

set_reentrancy_guard(w, value) == [w EXCEPT !.reentrancy_guard = value]

-----------------------------------------------------------------------------
(* shared_utils: SafeMath, TimeUtils, Validation, RateLimiter *)

\* i128 division: the quotient is truncated towards zero (b > 0)
i128_div(a, b) == IF a >= 0 THEN a \div b ELSE -((-a) \div b)

\* SafeMath::loss_percent: (amount - current_value) * 100 / amount
loss_percent(amount, current_value) == i128_div((amount - current_value) * 100, amount)

\* SafeMath::penalty_amount: value * percent / 100
penalty_amount(value, percent) == i128_div(value * percent, 100)

\* SafeMath::sub: checked subtraction
sub(a, b) == a - b

\* TimeUtils::calculate_expiration: now + duration_days * 86400
calculate_expiration(t, duration_days) == t + duration_days * SecondsPerDay

\* Validation::require_positive; "" when the check passes
require_positive(amount) == IF amount > 0 THEN "" ELSE "Invalid amount"

require_valid_duration(duration_days) ==
    IF duration_days > 0 THEN "" ELSE "Invalid duration"

require_valid_percent(percent) == IF percent <= 100 THEN "" ELSE "Invalid percent"

require_valid_commitment_type(commitment_type, valid_types) ==
    IF commitment_type \in valid_types THEN "" ELSE "Invalid commitment type"

\* RateLimiter::set_limit
set_limit(w, function, window_seconds, max_calls) ==
    [w EXCEPT !.rl_limit[function] =
        [window_seconds |-> window_seconds, max_calls |-> max_calls]]

\* RateLimiter::check: a window of window_seconds opened by the first call
\* counted in it; no limit configured means no bookkeeping at all.
check(w, key, function, t) ==
    LET lim == w.rl_limit[function]
        cur == w.rl_count[<<key, function>>]
        fresh == cur = NoCount \/ t - cur.start >= lim.window_seconds
        start == IF fresh THEN t ELSE cur.start
        count == IF fresh THEN 0 ELSE cur.count
    IN  IF lim = NoLimit THEN [err |-> "", w |-> w]
        ELSE IF count >= lim.max_calls
        THEN [err |-> "Rate limit exceeded", w |-> w]
        ELSE [err |-> "",
              w |-> [w EXCEPT !.rl_count[<<key, function>>] =
                        [start |-> start, count |-> count + 1]]]

-----------------------------------------------------------------------------
(* The asset: token::Client balance and transfer.  auth is the principal   *)
(* that signed the transaction; the calling contract spends its own funds. *)

token_transfer(w, auth, from, to, amount) ==
    IF from # Core /\ from # auth THEN Panic(w, "Unauthorized", "none")
    ELSE IF amount < 0 THEN Panic(w, "negative amount is not allowed", "none")
    ELSE IF w.balance[from] < amount THEN Panic(w, "balance is not sufficient", "none")
    ELSE Ok([w EXCEPT !.balance[from] = @ - amount, !.balance[to] = @ + amount],
            "", "none")

-----------------------------------------------------------------------------
(* The receipt component, commitment_nft/src/lib.rs *)

\* mint, lib.rs 80-148 (the lists OwnerTokens and TokenIds are left out)
nft_mint(w, owner, commitment_id, duration_days, t) ==
    LET token_id == w.token_counter
        nft == [owner |-> owner, token_id |-> token_id,
                commitment_id |-> commitment_id,
                expires_at |-> t + duration_days * SecondsPerDay,
                is_active |-> TRUE]
    IN  Ok([w EXCEPT !.token_counter = token_id + 1, !.nfts = Append(@, nft),
                     !.owner_balance[owner] = @ + 1],
           token_id, "none")

\* transfer, lib.rs 171-222: the sender's balance is written, then the
\* receiver's is read and written
nft_transfer(w, invoker, from, to, token_id) ==
    IF invoker # from THEN Panic(w, "Unauthorized", "none")
    ELSE IF token_id + 1 > Len(w.nfts) THEN Panic(w, "TokenNotFound", "none")
    ELSE IF w.nfts[token_id + 1].owner # from THEN Panic(w, "NotOwner", "none")
    ELSE LET w1 == [w EXCEPT !.nfts[token_id + 1].owner = to]
             from_balance == w1.owner_balance[from]
             w2 == IF from_balance > 0
                   THEN [w1 EXCEPT !.owner_balance[from] = from_balance - 1]
                   ELSE w1
             to_balance == w2.owner_balance[to]
         IN  Ok([w2 EXCEPT !.owner_balance[to] = to_balance + 1], "", "none")

\* total_supply, lib.rs 236-238
nft_total_supply(w) == w.token_counter

\* balance_of, lib.rs 241-246
nft_balance_of(w, owner) == w.owner_balance[owner]

\* faulty variant: the expiry is not looked at
nft_settle_early(w, token_id, t) ==
    IF token_id + 1 > Len(w.nfts) THEN Panic(w, "TokenNotFound", "none")
    ELSE LET nft == w.nfts[token_id + 1]
         IN  IF ~nft.is_active THEN Panic(w, "AlreadySettled", "none")
             ELSE Ok([w EXCEPT !.nfts[token_id + 1].is_active = FALSE], "", "none")

\* settle, lib.rs 287-314
nft_settle(w, token_id, t) ==
    IF token_id + 1 > Len(w.nfts) THEN Panic(w, "TokenNotFound", "none")
    ELSE LET nft == w.nfts[token_id + 1]
         IN  IF ~nft.is_active THEN Panic(w, "AlreadySettled", "none")
             ELSE IF t < nft.expires_at THEN Panic(w, "NotExpired", "none")
             ELSE Ok([w EXCEPT !.nfts[token_id + 1].is_active = FALSE], "", "none")

-----------------------------------------------------------------------------
(* A callee calling back into the ledger during the interaction `stage` of *)
(* the call c.  A nested call that panics makes the callee fail, and the   *)
(* failure propagates to c.                                                *)

RECURSIVE Invoke(_, _, _)

Callback(w, c, stage, t) ==
    IF c.cb.at # stage THEN Ok(w, "", "none")
    ELSE LET n == Invoke(w, c.cb.call, t)
         IN  IF n.err # "" THEN Panic(w, n.err, n.err)
             ELSE Ok(n.w, "", "returned")

\* an external call: cbr is the outcome of the callee's callback, r the
\* outcome of the callee's own work on the storage the callback left
External(cbr, r) ==
    IF cbr.err # "" THEN cbr
    ELSE [r EXCEPT !.nested = cbr.nested]

Join(a, b) == IF a # "none" THEN a ELSE b

-----------------------------------------------------------------------------
(* commitment_core/src/lib.rs: helpers *)

\* transfer_assets, lib.rs 91-103
transfer_assets(w, auth, from, to, amount) ==
    IF w.balance[from] < amount THEN Panic(w, "Insufficient balance", "none")
    ELSE token_transfer(w, auth, from, to, amount)

\* call_nft_mint, lib.rs 106-129
call_nft_mint(w, owner, commitment_id, duration_days, t) ==
    nft_mint(w, owner, commitment_id, duration_days, t)

\* require_admin, lib.rs 167-177; "" when the caller is the authenticated admin
require_admin(auth, caller) ==
    IF caller # auth THEN "Unauthorized"
    ELSE IF caller # Admin THEN "Unauthorized: only admin can perform this action"
    ELSE ""

\* faulty variant: the commitment type is not validated
validate_rules_any_type(rules) ==
    LET d == require_valid_duration(rules.duration_days)
        p == require_valid_percent(rules.max_loss_percent)
    IN  IF d # "" THEN d ELSE p

\* validate_rules, lib.rs 201-211
validate_rules(rules) ==
    LET d == require_valid_duration(rules.duration_days)
        p == require_valid_percent(rules.max_loss_percent)
        ty == require_valid_commitment_type(rules.commitment_type, ValidTypes)
    IN  IF d # "" THEN d ELSE IF p # "" THEN p ELSE ty

\* generate_commitment_id, lib.rs 214-223: the counter is read and not used
generate_commitment_id(w, owner) == "commitment_"

-----------------------------------------------------------------------------
(* create_commitment, lib.rs 346-465 *)

\* CHECKS, lib.rs 350-377 (the guard is already set)
create_checks(w, c, t) ==
    LET rl == check(w, c.owner, "create", t)
        pos == require_positive(c.amount)
        vr == validate_rules(c.rules)
        commitment_id == generate_commitment_id(rl.w, c.owner)
    IN  IF rl.err # "" THEN rl
        ELSE IF pos # "" THEN [err |-> pos, w |-> rl.w]
        ELSE IF vr # "" THEN [err |-> vr, w |-> rl.w]
        ELSE IF has_commitment(rl.w, commitment_id)
        THEN [err |-> "Commitment already exists",
              w |-> set_reentrancy_guard(rl.w, FALSE)]
        ELSE [err |-> "", w |-> rl.w]

\* faulty variant: the number of commitments is not counted up
create_effects_no_count(w, c, commitment) ==
    LET w1 == set_commitment(w, commitment)
        w2 == [w1 EXCEPT !.owner_commitments[c.owner] =
                  Append(@, commitment.commitment_id)]
    IN  [w2 EXCEPT !.total_value_locked = @ + c.amount]

\* faulty variant: the owner's index is not extended
create_effects_no_index(w, c, commitment) ==
    LET w1 == set_commitment(w, commitment)
        w3 == [w1 EXCEPT !.total_commitments = @ + 1]
    IN  [w3 EXCEPT !.total_value_locked = @ + c.amount]

\* EFFECTS, lib.rs 379-431
create_effects(w, c, commitment) ==
    LET w1 == set_commitment(w, commitment)
        w2 == [w1 EXCEPT !.owner_commitments[c.owner] =
                  Append(@, commitment.commitment_id)]
        w3 == [w2 EXCEPT !.total_commitments = @ + 1]
    IN  [w3 EXCEPT !.total_value_locked = @ + c.amount]

\* INTERACTIONS, lib.rs 433-457
create_interactions(w, c, commitment, t) ==
    LET tr == (LET cbr == Callback(w, c, "transfer", t)
                  IN  External(cbr,
                          transfer_assets(cbr.w,
                              c.invoker, c.owner, Core, c.amount)))
        mint == (LET cbr == Callback(tr.w, c, "nft", t)
                  IN  External(cbr,
                          call_nft_mint(cbr.w,
                              c.owner, commitment.commitment_id, c.rules.duration_days, t)))
        updated_commitment == [commitment EXCEPT !.nft_token_id = mint.val]
        w1 == set_commitment(mint.w, updated_commitment)
        w2 == set_reentrancy_guard(w1, FALSE)
    IN  IF tr.err # "" THEN tr
        ELSE IF mint.err # "" THEN [mint EXCEPT !.nested = Join(tr.nested, @)]
        ELSE Ok(w2, commitment.commitment_id, Join(tr.nested, mint.nested))

create_commitment(w, c, t) ==
    IF ~require_no_reentrancy(w) THEN Panic(w, "Reentrancy detected", "none")
    ELSE
    LET w1 == set_reentrancy_guard(w, TRUE)
        ck == create_checks(w1, c, t)
        commitment ==
            [commitment_id |-> generate_commitment_id(ck.w, c.owner),
             owner |-> c.owner,
             nft_token_id |-> 0,
             rules |-> c.rules,
             amount |-> c.amount,
             created_at |-> t,
             expires_at |-> calculate_expiration(t, c.rules.duration_days),
             current_value |-> c.amount,
             status |-> "active"]
    IN  IF ck.err # "" THEN Panic(ck.w, ck.err, "none")
        ELSE create_interactions(create_effects(ck.w, c, commitment), c, commitment, t)

-----------------------------------------------------------------------------
(* settle, lib.rs 643-713 *)

\* faulty variant: the status of the commitment is not checked
settle_checks_any_status(w, commitment_id, t) ==
    LET commitment == read_commitment(w, commitment_id)
    IN  IF commitment = NoCommitment THEN "Commitment not found"
        ELSE IF t < commitment.expires_at THEN "Commitment has not expired yet"
        ELSE ""

\* CHECKS, lib.rs 648-667; "" when the commitment can be settled
settle_checks(w, commitment_id, t) ==
    LET commitment == read_commitment(w, commitment_id)
    IN  IF commitment = NoCommitment THEN "Commitment not found"
        ELSE IF t < commitment.expires_at THEN "Commitment has not expired yet"
        ELSE IF commitment.status # active_status THEN "Commitment is not active"
        ELSE ""

\* faulty variant: the total value locked is not decreased
settle_effects_keep_tvl(w, commitment) ==
    set_commitment(w, [commitment EXCEPT !.status = "settled"])

\* EFFECTS, lib.rs 669-683
settle_effects(w, commitment) ==
    LET settlement_amount == commitment.current_value
        w1 == set_commitment(w, [commitment EXCEPT !.status = "settled"])
    IN  [w1 EXCEPT !.total_value_locked = @ - settlement_amount]

\* INTERACTIONS, lib.rs 685-706
settle_interactions(w, c, commitment, t) ==
    LET settlement_amount == commitment.current_value
        tr == (LET cbr == Callback(w, c, "transfer", t)
                  IN  External(cbr,
                          token_transfer(cbr.w,
                              c.invoker, Core, commitment.owner, settlement_amount)))
        st == (LET cbr == Callback(tr.w, c, "nft", t)
                  IN  External(cbr,
                          nft_settle(cbr.w,
                              commitment.nft_token_id, t)))
    IN  IF tr.err # "" THEN tr
        ELSE IF st.err # "" THEN [st EXCEPT !.nested = Join(tr.nested, @)]
        ELSE Ok(set_reentrancy_guard(st.w, FALSE), "", Join(tr.nested, st.nested))

settle(w, c, t) ==
    IF ~require_no_reentrancy(w) THEN Panic(w, "Reentrancy detected", "none")
    ELSE
    LET w1 == set_reentrancy_guard(w, TRUE)
        ck == settle_checks(w1, c.id, t)
        commitment == read_commitment(w1, c.id)
    IN  IF ck # "" THEN Panic(set_reentrancy_guard(w1, FALSE), ck, "none")
        ELSE settle_interactions(settle_effects(w1, commitment), c, commitment, t)

-----------------------------------------------------------------------------
(* early_exit, lib.rs 719-777 *)

\* faulty variant: the status of the commitment is not checked
early_exit_checks_any_status(w, commitment_id, caller) ==
    LET commitment == read_commitment(w, commitment_id)
    IN  IF commitment = NoCommitment THEN "Commitment not found"
        ELSE IF commitment.owner # caller THEN "Unauthorized: caller is not the owner"
        ELSE ""

\* CHECKS, lib.rs 724-742; "" when the caller may exit the commitment
early_exit_checks(w, commitment_id, caller) ==
    LET commitment == read_commitment(w, commitment_id)
    IN  IF commitment = NoCommitment THEN "Commitment not found"
        ELSE IF commitment.owner # caller THEN "Unauthorized: caller is not the owner"
        ELSE IF commitment.status # active_status THEN "Commitment is not active"
        ELSE ""

\* faulty variant: the owner gets the full value back
returned_amount_no_penalty(commitment) == commitment.current_value

\* the amount returned to the owner, lib.rs 744-747
returned_amount(commitment) ==
    sub(commitment.current_value,
        penalty_amount(commitment.current_value, commitment.rules.early_exit_penalty))

\* faulty variant: the total value locked is decreased by the payout only
early_exit_effects_by_payout(w, commitment) ==
    LET w1 == set_commitment(w, [commitment EXCEPT !.status = "early_exit"])
    IN  [w1 EXCEPT !.total_value_locked = @ - returned_amount(commitment)]

\* EFFECTS, lib.rs 749-761
early_exit_effects(w, commitment) ==
    LET w1 == set_commitment(w, [commitment EXCEPT !.status = "early_exit"])
    IN  [w1 EXCEPT !.total_value_locked = @ - commitment.current_value]

\* INTERACTIONS, lib.rs 763-770
early_exit_interactions(w, c, commitment, t) ==
    LET tr == (LET cbr == Callback(w, c, "transfer", t)
                  IN  External(cbr,
                          token_transfer(cbr.w,
                              c.invoker, Core, commitment.owner, returned_amount(commitment))))
    IN  IF tr.err # "" THEN tr
        ELSE Ok(set_reentrancy_guard(tr.w, FALSE), "", tr.nested)

early_exit(w, c, t) ==
    IF ~require_no_reentrancy(w) THEN Panic(w, "Reentrancy detected", "none")
    ELSE
    LET w1 == set_reentrancy_guard(w, TRUE)
        ck == early_exit_checks(w1, c.id, c.caller)
        commitment == read_commitment(w1, c.id)
    IN  IF ck # "" THEN Panic(set_reentrancy_guard(w1, FALSE), ck, "none")
        ELSE early_exit_interactions(early_exit_effects(w1, commitment), c,
                                     commitment, t)

-----------------------------------------------------------------------------
(* allocate, lib.rs 783-836 *)

\* CHECKS, lib.rs 788-815 (the guard is already set)
allocate_checks(w, c, t) ==
    LET rl == check(w, c.target_pool, "alloc", t)
        commitment == read_commitment(rl.w, c.id)
        unguarded == set_reentrancy_guard(rl.w, FALSE)
    IN  IF rl.err # "" THEN rl
        ELSE IF c.amount <= 0 THEN [err |-> "Invalid amount", w |-> unguarded]
        ELSE IF commitment = NoCommitment
        THEN [err |-> "Commitment not found", w |-> unguarded]
        ELSE IF commitment.status # active_status
        THEN [err |-> "Commitment is not active", w |-> unguarded]
        ELSE IF commitment.current_value < c.amount
        THEN [err |-> "Insufficient commitment value", w |-> unguarded]
        ELSE [err |-> "", w |-> rl.w]

\* faulty variant: the value of the commitment is not lowered
allocate_effects_keep_value(w, commitment, amount) == w

\* faulty variant: the locked amount is lowered with the value
allocate_effects_amount(w, commitment, amount) ==
    set_commitment(w, [commitment EXCEPT !.current_value = @ - amount,
                                         !.amount = @ - amount])

\* faulty variant: the value is lowered by one unit less than is sent out
allocate_effects_short(w, commitment, amount) ==
    set_commitment(w, [commitment EXCEPT !.current_value = @ - amount + 1])

\* EFFECTS, lib.rs 817-820
allocate_effects(w, commitment, amount) ==
    set_commitment(w, [commitment EXCEPT !.current_value = @ - amount])

\* faulty variant: the guard is left set on the way out
allocate_interactions_keep_guard(w, c, t) ==
    (LET cbr == Callback(w, c, "transfer", t)
                  IN  External(cbr,
                          token_transfer(cbr.w,
                              c.invoker, Core, c.target_pool, c.amount)))

\* INTERACTIONS, lib.rs 822-829
allocate_interactions(w, c, t) ==
    LET tr == (LET cbr == Callback(w, c, "transfer", t)
                  IN  External(cbr,
                          token_transfer(cbr.w,
                              c.invoker, Core, c.target_pool, c.amount)))
    IN  IF tr.err # "" THEN tr
        ELSE Ok(set_reentrancy_guard(tr.w, FALSE), "", tr.nested)

allocate(w, c, t) ==
    IF ~require_no_reentrancy(w) THEN Panic(w, "Reentrancy detected", "none")
    ELSE
    LET w1 == set_reentrancy_guard(w, TRUE)
        ck == allocate_checks(w1, c, t)
    IN  IF ck.err # "" THEN Panic(ck.w, ck.err, "none")
        ELSE allocate_interactions(
                 allocate_effects(ck.w, read_commitment(ck.w, c.id), c.amount), c, t)

-----------------------------------------------------------------------------
(* update_value, lib.rs 526-539: rate limit and event only *)

\* faulty variant: update_value without the rate limit check
update_value_unlimited(w, c, t) == Ok(w, "", "none")

update_value(w, c, t) ==
    LET rl == check(w, Core, "upd_val", t)
    IN  IF rl.err # "" THEN Panic(rl.w, rl.err, "none")
        ELSE Ok(rl.w, "", "none")

-----------------------------------------------------------------------------
(* check_violations, lib.rs 558-599 *)

\* faulty variant: a loss equal to the limit counts as a violation
violated_at_limit(commitment, t) ==
    IF commitment.status # active_status THEN FALSE
    ELSE
    LET loss == IF commitment.amount > 0
                THEN loss_percent(commitment.amount, commitment.current_value)
                ELSE 0
    IN  loss >= commitment.rules.max_loss_percent \/ t >= commitment.expires_at

\* the verdict on a stored commitment at time t
violated(commitment, t) ==
    IF commitment.status # active_status THEN FALSE
    ELSE
    LET loss == IF commitment.amount > 0
                THEN loss_percent(commitment.amount, commitment.current_value)
                ELSE 0
        max_loss == commitment.rules.max_loss_percent
        loss_violated == loss > max_loss
        duration_violated == t >= commitment.expires_at
    IN  loss_violated \/ duration_violated

\* faulty variant: a violation found is written to the commitment
check_violations_marking(w, c, t) ==
    LET commitment == read_commitment(w, c.id)
    IN  IF commitment = NoCommitment THEN Panic(w, "Commitment not found", "none")
        ELSE IF violated(commitment, t)
        THEN Ok(set_commitment(w, [commitment EXCEPT !.status = "violated"]),
                TRUE, "none")
        ELSE Ok(w, FALSE, "none")

check_violations(w, c, t) ==
    LET commitment == read_commitment(w, c.id)
    IN  IF commitment = NoCommitment THEN Panic(w, "Commitment not found", "none")
        ELSE Ok(w, violated(commitment, t), "none")

-----------------------------------------------------------------------------
(* get_violation_details, lib.rs 603-637 *)

\* faulty variant: the time equal to expires_at is no violation yet
violation_details_after_expiry(commitment, t) ==
    LET loss_amount == commitment.amount - commitment.current_value
        loss == IF commitment.amount > 0
                THEN i128_div(loss_amount * 100, commitment.amount)
                ELSE 0
        loss_violated == loss > commitment.rules.max_loss_percent
        duration_violated == t > commitment.expires_at
    IN  [has_violations |-> loss_violated \/ duration_violated,
         loss_violated |-> loss_violated,
         duration_violated |-> duration_violated,
         loss_percent |-> loss,
         time_remaining |-> IF t < commitment.expires_at
                            THEN commitment.expires_at - t
                            ELSE 0]

\* the tuple (has_violations, loss_violated, duration_violated, loss_percent,
\* time_remaining) as a record
violation_details(commitment, t) ==
    LET loss_amount == commitment.amount - commitment.current_value
        loss == IF commitment.amount > 0
                THEN i128_div(loss_amount * 100, commitment.amount)
                ELSE 0
        max_loss == commitment.rules.max_loss_percent
        loss_violated == loss > max_loss
        duration_violated == t >= commitment.expires_at
        time_remaining == IF t < commitment.expires_at
                          THEN commitment.expires_at - t
                          ELSE 0
    IN  [has_violations |-> loss_violated \/ duration_violated,
         loss_violated |-> loss_violated,
         duration_violated |-> duration_violated,
         loss_percent |-> loss,
         time_remaining |-> time_remaining]

get_violation_details(w, c, t) ==
    LET commitment == read_commitment(w, c.id)
    IN  IF commitment = NoCommitment THEN Panic(w, "Commitment not found", "none")
        ELSE Ok(w, violation_details(commitment, t), "none")

-----------------------------------------------------------------------------
(* set_rate_limit, lib.rs 841-850 *)

set_rate_limit(w, c, t) ==
    LET auth == require_admin(c.invoker, c.caller)
    IN  IF auth # "" THEN Panic(w, auth, "none")
        ELSE Ok(set_limit(w, c.function, c.window_seconds, c.max_calls), "", "none")

-----------------------------------------------------------------------------
(* Dispatch of a call to its entry point *)

Invoke(w, c, t) ==
    CASE c.fn = "create_commitment" -> create_commitment(w, c, t)
      [] c.fn = "settle" -> settle(w, c, t)
      [] c.fn = "early_exit" -> early_exit(w, c, t)
      [] c.fn = "allocate" -> allocate(w, c, t)
      [] c.fn = "update_value" -> update_value(w, c, t)
      [] c.fn = "check_violations" -> check_violations(w, c, t)
      [] c.fn = "get_violation_details" -> get_violation_details(w, c, t)
      [] c.fn = "set_rate_limit" -> set_rate_limit(w, c, t)

\* the host: a panic discards every write of the transaction
HostCommit(pre, r) == IF r.err = "" THEN r.w ELSE pre

-----------------------------------------------------------------------------
(* Calls, their callees' behaviours and their recorded outcomes *)

NewValues == {1100}

\* a guarded entry point a crafted callee may call back into
NestedCall(fn, invoker, owner) ==
    CASE fn = "create_commitment" ->
           [fn |-> fn, invoker |-> invoker, owner |-> owner, amount |-> 1000,
            rules |-> Rules(1, 10, "safe", 5), cb |-> NoCallback]
      [] fn = "settle" ->
           [fn |-> fn, invoker |-> invoker, id |-> "commitment_", cb |-> NoCallback]
      [] fn = "early_exit" ->
           [fn |-> fn, invoker |-> invoker, id |-> "commitment_", caller |-> owner,
            cb |-> NoCallback]
      [] fn = "allocate" ->
           [fn |-> fn, invoker |-> invoker, id |-> "commitment_",
            target_pool |-> Pool, amount |-> 601, cb |-> NoCallback]

GuardedEntryPoints == {"create_commitment", "settle", "early_exit", "allocate"}

\* the callee's behaviours: honest, or calling back at one of `stages`
Callbacks(stages, fns, invoker, owner) ==
    {NoCallback} \cup
    { [at |-> s, call |-> NestedCall(fn, invoker, owner)] : s \in stages, fn \in fns }

\* the rules of a call that takes none
NoRules == Rules(0, 0, "none", 0)

NoRet ==
    [op |-> "none", invoker |-> "none", id |-> "none", party |-> "none",
     amount |-> 0, rules |-> NoRules, err |-> "", val |-> "", cb_at |-> "none",
     cb_fn |-> "none", nested |-> "none"]

\* what the caller observes: the call, its result or panic message, and
\* what a called-back callee got from its nested call
Outcome(c, r, id, party, amount) ==
    [op |-> c.fn, invoker |-> c.invoker, id |-> id, party |-> party,
     amount |-> amount,
     rules |-> IF c.fn = "create_commitment" THEN c.rules ELSE NoRules,
     err |-> r.err, val |-> r.val,
     cb_at |-> c.cb.at,
     cb_fn |-> IF c.cb.at = "none" THEN "none" ELSE c.cb.call.fn,
     nested |-> r.nested]

-----------------------------------------------------------------------------
(* attestation_engine/src/lib.rs.  The engine reads commitments from        *)
(* commitment_core with get_commitment; its handlers take the engine's      *)
(* storage ew and the ledger's storage w, which they only read.             *)

\* no health metrics stored under ("HEALTH", id)
NoMetrics == [commitment_id |-> "none"]

EngineWorld ==
    [attestations |-> attestations, fees |-> fees,
     health_metrics |-> health_metrics,
     authorized_recorders |-> authorized_recorders,
     engine_admin |-> engine_admin, engine_core |-> engine_core]

EngineCommit(ew) ==
    /\ attestations' = ew.attestations
    /\ fees' = ew.fees
    /\ health_metrics' = ew.health_metrics
    /\ authorized_recorders' = ew.authorized_recorders
    /\ engine_admin' = ew.engine_admin
    /\ engine_core' = ew.engine_core

\* initialize(admin, commitment_core), lib.rs 63-66
EngineInit ==
    /\ attestations = [id \in Ids |-> <<>>]
    /\ fees = [id \in Ids |-> 0]
    /\ health_metrics = [id \in Ids |-> NoMetrics]
    /\ authorized_recorders = {}
    /\ engine_admin = Admin
    /\ engine_core = Core

\* initialize as an entry point, lib.rs 63-66: no authorization is asked for
\* and nothing is read; both keys are set to the arguments
initialize(ew, w, c, t) ==
    Ok([ew EXCEPT !.engine_admin = c.admin, !.engine_core = c.commitment_core],
       "", "none")

\* commitment_core get_commitment, lib.rs 468-483: NoCommitment stands for the
\* panic "Commitment not found", which aborts the calling transaction
get_commitment(w, commitment_id) == read_commitment(w, commitment_id)

\* faulty variant: every address is accepted as a recorder
is_authorized_recorder_anyone(ew, recorder) == TRUE

\* is_authorized_recorder, lib.rs 98-111
is_authorized_recorder(ew, recorder) ==
    recorder = ew.engine_admin \/ recorder \in ew.authorized_recorders

\* add_authorized_recorder, lib.rs 73-95
add_authorized_recorder(ew, w, c, t) ==
    IF c.invoker # c.caller THEN Panic(ew, "Unauthorized", "none")
    ELSE IF c.caller # ew.engine_admin
    THEN Panic(ew, "Unauthorized: only admin can add recorders", "none")
    ELSE Ok([ew EXCEPT !.authorized_recorders = @ \cup {c.recorder}], "", "none")

\* load_or_create_health_metrics, lib.rs 118-136
load_or_create_health_metrics(ew, commitment_id) ==
    IF ew.health_metrics[commitment_id] # NoMetrics
    THEN ew.health_metrics[commitment_id]
    ELSE [commitment_id |-> commitment_id, current_value |-> 0,
          initial_value |-> 0, drawdown_percent |-> 0, fees_generated |-> 0,
          volatility_exposure |-> 0, last_attestation |-> 0,
          compliance_score |-> 100]

\* store_health_metrics, lib.rs 139-142
store_health_metrics(ew, metrics) ==
    [ew EXCEPT !.health_metrics[metrics.commitment_id] = metrics]

Attestation(commitment_id, t, attestation_type, data, is_compliant, verified_by) ==
    [commitment_id |-> commitment_id, timestamp |-> t,
     attestation_type |-> attestation_type, data |-> data,
     is_compliant |-> is_compliant, verified_by |-> verified_by]

\* faulty variant: the new attestation replaces the stored list
push_attestation_replacing(ew, attestation) ==
    [ew EXCEPT !.attestations[attestation.commitment_id] = <<attestation>>]

\* the push_back of an attestation onto ("ATTS", id), lib.rs 161-168
push_attestation(ew, attestation) ==
    [ew EXCEPT !.attestations[attestation.commitment_id] = Append(@, attestation)]

\* attest, lib.rs 145-174
attest(ew, w, c, t) ==
    Ok(push_attestation(ew,
           Attestation(c.id, t, c.attestation_type, c.data, TRUE, c.verified_by)),
       "", "none")

\* get_attestations, lib.rs 177-183
get_attestations(ew, commitment_id) == ew.attestations[commitment_id]

\* the drawdown percent, lib.rs 206-212, 336-342 and 451-455
drawdown_percent(initial_value, current_value) ==
    IF initial_value > 0
    THEN i128_div((initial_value - current_value) * 100, initial_value)
    ELSE 0

\* faulty variant: the score is raised to 0 before the bonuses are added
compliance_score_clamped_early(ew, commitment, commitment_id, t) ==
    LET atts == get_attestations(ew, commitment_id)
        violation_count ==
            Cardinality({i \in 1..Len(atts) :
                            \/ ~atts[i].is_compliant
                            \/ atts[i].attestation_type = "violation"})
        s1 == 100 - violation_count * 20
        initial_value == commitment.amount
        max_loss_percent == commitment.rules.max_loss_percent
        drawdown == drawdown_percent(initial_value, commitment.current_value)
        s2 == IF initial_value > 0 /\ drawdown > max_loss_percent
              THEN s1 - (drawdown - max_loss_percent)
              ELSE s1
        floor0 == IF s2 < 0 THEN 0 ELSE s2
        min_fee_threshold == commitment.rules.min_fee_threshold
        total_fees == ew.fees[commitment_id]
        fee_percent == i128_div(total_fees * 100, min_fee_threshold)
        bonus == IF fee_percent > 100 THEN 100 ELSE fee_percent
        s3 == IF min_fee_threshold > 0 /\ total_fees > 0 THEN floor0 + bonus ELSE floor0
        total_duration == commitment.expires_at - commitment.created_at
        elapsed == IF t >= commitment.created_at
                   THEN t - commitment.created_at
                   ELSE 0
        expected_progress == (elapsed * 100) \div total_duration
        s4 == IF commitment.expires_at > commitment.created_at
                 /\ expected_progress <= 100
              THEN s3 + 10
              ELSE s3
    IN  IF s4 < 0 THEN 0 ELSE IF s4 > 100 THEN 100 ELSE s4

\* the score of calculate_compliance_score, lib.rs 436-497
compliance_score(ew, commitment, commitment_id, t) ==
    LET atts == get_attestations(ew, commitment_id)
        violation_count ==
            Cardinality({i \in 1..Len(atts) :
                            \/ ~atts[i].is_compliant
                            \/ atts[i].attestation_type = "violation"})
        s1 == 100 - violation_count * 20
        initial_value == commitment.amount
        max_loss_percent == commitment.rules.max_loss_percent
        drawdown == drawdown_percent(initial_value, commitment.current_value)
        s2 == IF initial_value > 0 /\ drawdown > max_loss_percent
              THEN s1 - (drawdown - max_loss_percent)
              ELSE s1
        min_fee_threshold == commitment.rules.min_fee_threshold
        total_fees == ew.fees[commitment_id]
        fee_percent == i128_div(total_fees * 100, min_fee_threshold)
        bonus == IF fee_percent > 100 THEN 100 ELSE fee_percent
        s3 == IF min_fee_threshold > 0 /\ total_fees > 0 THEN s2 + bonus ELSE s2
        total_duration == commitment.expires_at - commitment.created_at
        elapsed == IF t >= commitment.created_at
                   THEN t - commitment.created_at
                   ELSE 0
        expected_progress == (elapsed * 100) \div total_duration
        s4 == IF commitment.expires_at > commitment.created_at
                 /\ expected_progress <= 100
              THEN s3 + 10
              ELSE s3
    IN  IF s4 < 0 THEN 0 ELSE IF s4 > 100 THEN 100 ELSE s4

\* calculate_compliance_score, lib.rs 421-506
calculate_compliance_score(ew, w, c, t) ==
    LET commitment == get_commitment(w, c.id)
    IN  IF commitment = NoCommitment THEN Panic(ew, "Commitment not found", "none")
        ELSE Ok(ew, compliance_score(ew, commitment, c.id, t), "none")

\* the latest timestamp of a list of attestations, lib.rs 221-224
last_timestamp(atts) ==
    IF atts = <<>> THEN 0
    ELSE CHOOSE m \in {atts[i].timestamp : i \in 1..Len(atts)} :
             \A i \in 1..Len(atts) : atts[i].timestamp <= m

\* get_health_metrics, lib.rs 186-239
get_health_metrics(ew, w, c, t) ==
    LET commitment == get_commitment(w, c.id)
    IN  IF commitment = NoCommitment THEN Panic(ew, "Commitment not found", "none")
        ELSE Ok(ew,
                [commitment_id |-> c.id,
                 current_value |-> commitment.current_value,
                 initial_value |-> commitment.amount,
                 drawdown_percent |->
                     drawdown_percent(commitment.amount, commitment.current_value),
                 fees_generated |-> ew.fees[c.id],
                 volatility_exposure |-> 0,
                 last_attestation |-> last_timestamp(get_attestations(ew, c.id)),
                 compliance_score |-> compliance_score(ew, commitment, c.id, t)],
                "none")

\* faulty variant: only the latest attestation is looked at
verify_compliance_latest(ew, w, c, t) ==
    LET metrics == get_health_metrics(ew, w, c, t)
        atts == get_attestations(ew, c.id)
    IN  IF metrics.err # "" THEN metrics
        ELSE IF atts # <<>> /\ ~atts[Len(atts)].is_compliant
        THEN Ok(ew, FALSE, "none")
        ELSE IF metrics.val.drawdown_percent > 100 THEN Ok(ew, FALSE, "none")
        ELSE Ok(ew, TRUE, "none")

\* verify_compliance, lib.rs 242-257
verify_compliance(ew, w, c, t) ==
    LET metrics == get_health_metrics(ew, w, c, t)
        atts == get_attestations(ew, c.id)
    IN  IF metrics.err # "" THEN metrics
        ELSE IF \E i \in 1..Len(atts) : ~atts[i].is_compliant
        THEN Ok(ew, FALSE, "none")
        ELSE IF metrics.val.drawdown_percent > 100 THEN Ok(ew, FALSE, "none")
        ELSE Ok(ew, TRUE, "none")

\* faulty variant: the fee replaces the stored total
record_fees_overwriting(ew, w, c, t) ==
    IF c.invoker # c.caller THEN Panic(ew, "Unauthorized", "none")
    ELSE IF ~is_authorized_recorder(ew, c.caller)
    THEN Panic(ew, "Unauthorized: caller is not an authorized recorder", "none")
    ELSE IF c.amount <= 0 THEN Panic(ew, "fee_amount must be positive", "none")
    ELSE LET new_total == c.amount
             ew1 == [ew EXCEPT !.fees[c.id] = new_total]
             ew2 == attest(ew1, w,
                           [c EXCEPT !.attestation_type = "fee_generation",
                                     !.data = "fee_amount=recorded",
                                     !.verified_by = c.caller], t).w
             score == calculate_compliance_score(ew2, w, c, t)
             metrics == [load_or_create_health_metrics(ew2, c.id) EXCEPT
                            !.fees_generated = new_total,
                            !.compliance_score = score.val,
                            !.last_attestation = t]
         IN  IF score.err # "" THEN Panic(ew, score.err, "none")
             ELSE Ok(store_health_metrics(ew2, metrics), "", "none")

\* record_fees, lib.rs 265-303
record_fees(ew, w, c, t) ==
    IF c.invoker # c.caller THEN Panic(ew, "Unauthorized", "none")
    ELSE IF ~is_authorized_recorder(ew, c.caller)
    THEN Panic(ew, "Unauthorized: caller is not an authorized recorder", "none")
    ELSE IF c.amount <= 0 THEN Panic(ew, "fee_amount must be positive", "none")
    ELSE LET new_total == ew.fees[c.id] + c.amount
             ew1 == [ew EXCEPT !.fees[c.id] = new_total]
             ew2 == attest(ew1, w,
                           [c EXCEPT !.attestation_type = "fee_generation",
                                     !.data = "fee_amount=recorded",
                                     !.verified_by = c.caller], t).w
             score == calculate_compliance_score(ew2, w, c, t)
             metrics == [load_or_create_health_metrics(ew2, c.id) EXCEPT
                            !.fees_generated = new_total,
                            !.compliance_score = score.val,
                            !.last_attestation = t]
         IN  IF score.err # "" THEN Panic(ew, score.err, "none")
             ELSE Ok(store_health_metrics(ew2, metrics), "", "none")

\* faulty variant: a loss equal to the limit counts as a violation
is_violation_at_limit(drawdown, max_loss_percent) == drawdown >= max_loss_percent

\* the violation test of record_drawdown, lib.rs 347-348
is_violation(drawdown, max_loss_percent) == drawdown > max_loss_percent

\* record_drawdown, lib.rs 311-418
record_drawdown(ew, w, c, t) ==
    IF c.invoker # c.caller THEN Panic(ew, "Unauthorized", "none")
    ELSE IF ~is_authorized_recorder(ew, c.caller)
    THEN Panic(ew, "Unauthorized: caller is not an authorized recorder", "none")
    ELSE LET commitment == get_commitment(w, c.id)
             initial_value == commitment.amount
             drawdown == drawdown_percent(initial_value, c.amount)
             violation == is_violation(drawdown, commitment.rules.max_loss_percent)
             ew1 == IF violation
                    THEN push_attestation(ew,
                             Attestation(c.id, t, "violation", "", FALSE, c.caller))
                    ELSE ew
             ew2 == push_attestation(ew1,
                        Attestation(c.id, t, "drawdown", "", ~violation, c.caller))
             score == calculate_compliance_score(ew2, w, c, t)
             metrics == [load_or_create_health_metrics(ew, c.id) EXCEPT
                            !.current_value = c.amount,
                            !.initial_value = initial_value,
                            !.drawdown_percent = drawdown,
                            !.compliance_score = score.val,
                            !.last_attestation = t]
         IN  IF commitment = NoCommitment
             THEN Panic(ew, "Commitment not found", "none")
             ELSE Ok(store_health_metrics(ew2, metrics), "", "none")

\* the dispatch of a call to the attestation engine
EngineInvoke(ew, w, c, t) ==
    CASE c.fn = "attest" -> attest(ew, w, c, t)
      [] c.fn = "record_fees" -> record_fees(ew, w, c, t)
      [] c.fn = "record_drawdown" -> record_drawdown(ew, w, c, t)
      [] c.fn = "calculate_compliance_score" -> calculate_compliance_score(ew, w, c, t)
      [] c.fn = "get_health_metrics" -> get_health_metrics(ew, w, c, t)
      [] c.fn = "verify_compliance" -> verify_compliance(ew, w, c, t)
      [] c.fn = "add_authorized_recorder" -> add_authorized_recorder(ew, w, c, t)
      [] c.fn = "initialize" -> initialize(ew, w, c, t)

-----------------------------------------------------------------------------
(* time_lock/src/lib.rs: an independent contract.  Its handlers take the    *)
(* time lock's storage tw; a returned Err(..) leaves the storage as it was.  *)

MAX_DELAY == 2592000

ActionTypes == {"AdminChange", "ParameterChange", "Upgrade", "FeeChange"}

\* ActionType::get_delay, lib.rs 24-33
get_delay(action_type) ==
    CASE action_type = "AdminChange" -> 172800
      [] action_type = "ParameterChange" -> 86400
      [] action_type = "Upgrade" -> 259200
      [] action_type = "FeeChange" -> 86400

TimelockWorld ==
    [timelock_admin |-> timelock_admin, action_counter |-> action_counter,
     actions |-> actions, action_ids |-> action_ids]

TimelockCommit(tw) ==
    /\ timelock_admin' = tw.timelock_admin
    /\ action_counter' = tw.action_counter
    /\ actions' = tw.actions
    /\ action_ids' = tw.action_ids

\* initialize(admin), lib.rs 80-90
TimelockInit ==
    /\ timelock_admin = Admin
    /\ action_counter = 0
    /\ actions = <<>>
    /\ action_ids = <<>>

QueuedAction(id, action_type, queued_at, executable_at) ==
    [id |-> id, action_type |-> action_type, target |-> Core, data |-> "",
     queued_at |-> queued_at, executable_at |-> executable_at,
     executed |-> FALSE, cancelled |-> FALSE]

\* persistent().set(&StorageKey::Action(id), &action)
set_action(tw, id, action) ==
    [tw EXCEPT !.actions =
        [i \in (DOMAIN tw.actions) \cup {id} |-> IF i = id THEN action ELSE tw.actions[i]]]

\* persistent().get(&StorageKey::Action(id)) finding something
has_action(tw, id) == id \in DOMAIN tw.actions

\* faulty variant: the counter is written back only after the id was handed out
queue_action_stale_counter(tw, c, t) ==
    IF c.invoker # tw.timelock_admin THEN Panic(tw, "Unauthorized", "none")
    ELSE IF c.delay < get_delay(c.action_type) THEN Panic(tw, "DelayTooShort", "none")
    ELSE IF c.delay > MAX_DELAY THEN Panic(tw, "DelayTooLong", "none")
    ELSE LET counter == tw.action_counter + 1
             action == QueuedAction(counter, c.action_type, t, t + c.delay)
             tw1 == set_action(tw, counter, action)
         IN  Ok([tw1 EXCEPT !.action_ids = Append(@, counter)], counter, "none")

\* queue_action, lib.rs 103-163
queue_action(tw, c, t) ==
    IF c.invoker # tw.timelock_admin THEN Panic(tw, "Unauthorized", "none")
    ELSE IF c.delay < get_delay(c.action_type) THEN Panic(tw, "DelayTooShort", "none")
    ELSE IF c.delay > MAX_DELAY THEN Panic(tw, "DelayTooLong", "none")
    ELSE LET counter == tw.action_counter + 1
             action == QueuedAction(counter, c.action_type, t, t + c.delay)
             tw1 == set_action([tw EXCEPT !.action_counter = counter], counter, action)
         IN  Ok([tw1 EXCEPT !.action_ids = Append(@, counter)], counter, "none")

\* faulty variant: the delay is not looked at
execute_action_early(tw, c, t) ==
    IF ~has_action(tw, c.action_id) THEN Panic(tw, "ActionNotFound", "none")
    ELSE LET action == tw.actions[c.action_id]
         IN  IF action.executed THEN Panic(tw, "ActionAlreadyExecuted", "none")
             ELSE IF action.cancelled THEN Panic(tw, "ActionCancelled", "none")
             ELSE Ok(set_action(tw, c.action_id, [action EXCEPT !.executed = TRUE]),
                     "", "none")

\* execute_action, lib.rs 170-206
execute_action(tw, c, t) ==
    IF ~has_action(tw, c.action_id) THEN Panic(tw, "ActionNotFound", "none")
    ELSE LET action == tw.actions[c.action_id]
         IN  IF action.executed THEN Panic(tw, "ActionAlreadyExecuted", "none")
             ELSE IF action.cancelled THEN Panic(tw, "ActionCancelled", "none")
             ELSE IF t < action.executable_at THEN Panic(tw, "DelayNotMet", "none")
             ELSE Ok(set_action(tw, c.action_id, [action EXCEPT !.executed = TRUE]),
                     "", "none")

\* faulty variant: an executed action can still be cancelled
cancel_action_executed(tw, c, t) ==
    IF c.invoker # tw.timelock_admin THEN Panic(tw, "Unauthorized", "none")
    ELSE IF ~has_action(tw, c.action_id) THEN Panic(tw, "ActionNotFound", "none")
    ELSE LET action == tw.actions[c.action_id]
         IN  IF action.cancelled THEN Panic(tw, "ActionAlreadyCancelled", "none")
             ELSE Ok(set_action(tw, c.action_id, [action EXCEPT !.cancelled = TRUE]),
                     "", "none")

\* cancel_action, lib.rs 213-246
cancel_action(tw, c, t) ==
    IF c.invoker # tw.timelock_admin THEN Panic(tw, "Unauthorized", "none")
    ELSE IF ~has_action(tw, c.action_id) THEN Panic(tw, "ActionNotFound", "none")
    ELSE LET action == tw.actions[c.action_id]
         IN  IF action.executed
             THEN Panic(tw, "CannotCancelExecutedAction", "none")
             ELSE IF action.cancelled THEN Panic(tw, "ActionAlreadyCancelled", "none")
             ELSE Ok(set_action(tw, c.action_id, [action EXCEPT !.cancelled = TRUE]),
                     "", "none")

\* get_all_actions, lib.rs 266-271
get_all_actions(tw) == tw.action_ids

\* get_pending_actions, lib.rs 277-290
get_pending_actions(tw) ==
    LET pending(id) ==
            /\ has_action(tw, id)
            /\ ~tw.actions[id].executed
            /\ ~tw.actions[id].cancelled
    IN  SelectSeq(get_all_actions(tw), pending)

\* get_action_count, lib.rs 345-350
get_action_count(tw) == tw.action_counter

\* the dispatch of a call to the time lock
TimelockInvoke(tw, c, t) ==
    CASE c.fn = "queue_action" -> queue_action(tw, c, t)
      [] c.fn = "execute_action" -> execute_action(tw, c, t)
      [] c.fn = "cancel_action" -> cancel_action(tw, c, t)
      [] c.fn = "get_all_actions" -> Ok(tw, get_all_actions(tw), "none")
      [] c.fn = "get_pending_actions" -> Ok(tw, get_pending_actions(tw), "none")
      [] c.fn = "get_action_count" -> Ok(tw, get_action_count(tw), "none")

-----------------------------------------------------------------------------
(* price_oracle/src/lib.rs: an independent contract.  Its handlers take the *)
(* oracle's storage ow.  upgrade, migrate and the version are left out.     *)

Assets == {"asset_a", "asset_b"}

\* no PriceData is stored under the asset
NoPrice == [price |-> 0, updated_at |-> 0, decimals |-> 0, set |-> FALSE]

OracleWorld ==
    [oracle_admin |-> oracle_admin, oracle_whitelist |-> oracle_whitelist,
     prices |-> prices, max_staleness_seconds |-> max_staleness_seconds]

OracleCommit(ow) ==
    /\ oracle_admin' = ow.oracle_admin
    /\ oracle_whitelist' = ow.oracle_whitelist
    /\ prices' = ow.prices
    /\ max_staleness_seconds' = ow.max_staleness_seconds

\* initialize(admin), lib.rs 158-170
OracleInit ==
    /\ oracle_admin = Admin
    /\ oracle_whitelist = {}
    /\ prices = [a \in Assets |-> NoPrice]
    /\ max_staleness_seconds = 3600

\* is_whitelisted, lib.rs 76-81
is_whitelisted(ow, addr) == addr \in ow.oracle_whitelist

\* require_admin, lib.rs 68-74 (require_admin_result, 131-142, for set_admin)
oracle_admin_refusal(ow, c) ==
    IF c.invoker # c.caller THEN "Unauthorized"
    ELSE IF c.caller # ow.oracle_admin THEN "Unauthorized: admin only"
    ELSE ""

\* add_oracle, lib.rs 173-179
add_oracle(ow, c, t) ==
    IF oracle_admin_refusal(ow, c) # "" THEN Panic(ow, oracle_admin_refusal(ow, c), "none")
    ELSE Ok([ow EXCEPT !.oracle_whitelist = @ \cup {c.address}], "", "none")

\* remove_oracle, lib.rs 182-192
remove_oracle(ow, c, t) ==
    IF oracle_admin_refusal(ow, c) # "" THEN Panic(ow, oracle_admin_refusal(ow, c), "none")
    ELSE Ok([ow EXCEPT !.oracle_whitelist = @ \ {c.address}], "", "none")

\* faulty variant: the whitelist is not looked at
set_price_by_anyone(ow, c, t) ==
    IF c.invoker # c.caller THEN Panic(ow, "Unauthorized", "none")
    ELSE IF c.amount < 0 THEN Panic(ow, "Value must be non-negative", "none")
    ELSE Ok([ow EXCEPT !.prices[c.address] =
                [price |-> c.amount, updated_at |-> t, decimals |-> 7, set |-> TRUE]],
            "", "none")

\* set_price, lib.rs 200-223; Validation::require_non_negative aborts on a
\* negative price
set_price(ow, c, t) ==
    IF c.invoker # c.caller THEN Panic(ow, "Unauthorized", "none")
    ELSE IF ~is_whitelisted(ow, c.caller) THEN Panic(ow, "Oracle not whitelisted", "none")
    ELSE IF c.amount < 0 THEN Panic(ow, "Value must be non-negative", "none")
    ELSE Ok([ow EXCEPT !.prices[c.address] =
                [price |-> c.amount, updated_at |-> t, decimals |-> 7, set |-> TRUE]],
            "", "none")

\* faulty variant: a price as old as max_staleness is already stale
get_price_valid_strict(ow, c, t) ==
    LET data == ow.prices[c.address]
        max_staleness == IF c.override THEN c.amount ELSE ow.max_staleness_seconds
    IN  IF ~data.set THEN Panic(ow, "PriceNotFound", "none")
        ELSE IF data.price < 0 THEN Panic(ow, "InvalidPrice", "none")
        ELSE IF t < data.updated_at \/ t - data.updated_at >= max_staleness
             THEN Panic(ow, "StalePrice", "none")
        ELSE Ok(ow, data, "none")

\* get_price_valid, lib.rs 239-259
get_price_valid(ow, c, t) ==
    LET data == ow.prices[c.address]
        max_staleness == IF c.override THEN c.amount ELSE ow.max_staleness_seconds
    IN  IF ~data.set THEN Panic(ow, "PriceNotFound", "none")
        ELSE IF data.price < 0 THEN Panic(ow, "InvalidPrice", "none")
        ELSE IF t < data.updated_at \/ t - data.updated_at > max_staleness
             THEN Panic(ow, "StalePrice", "none")
        ELSE Ok(ow, data, "none")

\* set_max_staleness, lib.rs 262-266
set_max_staleness(ow, c, t) ==
    IF oracle_admin_refusal(ow, c) # "" THEN Panic(ow, oracle_admin_refusal(ow, c), "none")
    ELSE Ok([ow EXCEPT !.max_staleness_seconds = c.amount], "", "none")

\* set_admin, lib.rs 284-288
set_admin(ow, c, t) ==
    IF c.invoker # c.caller THEN Panic(ow, "Unauthorized", "none")
    ELSE IF c.caller # ow.oracle_admin THEN Panic(ow, "Unauthorized", "none")
    ELSE Ok([ow EXCEPT !.oracle_admin = c.address], "", "none")

\* the dispatch of a call to the oracle
OracleInvoke(ow, c, t) ==
    CASE c.fn = "add_oracle" -> add_oracle(ow, c, t)
      [] c.fn = "remove_oracle" -> remove_oracle(ow, c, t)
      [] c.fn = "set_price" -> set_price(ow, c, t)
      [] c.fn = "get_price_valid" -> get_price_valid(ow, c, t)
      [] c.fn = "set_max_staleness" -> set_max_staleness(ow, c, t)
      [] c.fn = "set_admin" -> set_admin(ow, c, t)

\* one transaction: the call runs to completion, the host commits or rolls
\* back, and the outcome goes to the caller
Do(c, id, party, amount) ==
    LET r == Invoke(World, c, now)
    IN  /\ Commit(HostCommit(World, r))
        /\ ret' = Outcome(c, r, id, party, amount)
        /\ UNCHANGED <<engine_storage, timelock_storage, oracle_storage>>

\* no outcome is waiting to be taken by a caller
Idle == ret.op = "none"

-----------------------------------------------------------------------------
(* Initial state: after initialize(admin, nft_contract), lib.rs 226-247 *)

Init ==
    /\ commitments = [i \in Ids |-> NoCommitment]
    /\ owner_commitments = [o \in Owners |-> <<>>]
    /\ total_commitments = 0
    /\ total_value_locked = 0
    /\ reentrancy_guard = FALSE
    /\ rl_limit = [f \in Functions |-> NoLimit]
    /\ rl_count = [k \in RLKeys |-> NoCount]
    /\ balance = [a \in Addresses |-> IF a \in Owners THEN InitialOwnerBalance ELSE 0]
    /\ token_counter = 0
    /\ nfts = <<>>
    /\ owner_balance = [a \in Addresses |-> 0]
    /\ EngineInit
    /\ TimelockInit
    /\ OracleInit
    /\ now = 0
    /\ ret = NoRet

-----------------------------------------------------------------------------
(* Actions: one per entry point *)

CreateCommitment ==
    \E invoker \in Owners, owner \in Owners :
      \/ \E in \in ValidInputs :
           \E cb \in Callbacks({"transfer", "nft"}, GuardedEntryPoints, invoker, owner) :
             /\ Idle
             /\ Do([fn |-> "create_commitment", invoker |-> invoker, owner |-> owner,
                    amount |-> in[1], rules |-> in[2], cb |-> cb],
                   generate_commitment_id(World, owner), owner, in[1])
             /\ now' = now
      \/ \E in \in InvalidInputs :
             /\ Idle
             /\ Do([fn |-> "create_commitment", invoker |-> invoker, owner |-> owner,
                    amount |-> in[1], rules |-> in[2], cb |-> NoCallback],
                   generate_commitment_id(World, owner), owner, in[1])
             /\ now' = now

Settle ==
    \E id \in Ids :
      \E cb \in Callbacks({"transfer", "nft"}, {"settle"}, "none", "none") :
        /\ Idle
        /\ Do([fn |-> "settle", invoker |-> "none", id |-> id, cb |-> cb],
              id, "none", 0)
        /\ now' = now

EarlyExit ==
    \E invoker \in Owners, id \in Ids, caller \in Owners :
      \E cb \in Callbacks({"transfer"}, {"early_exit"}, invoker, caller) :
        /\ Idle
        /\ Do([fn |-> "early_exit", invoker |-> invoker, id |-> id,
               caller |-> caller, cb |-> cb],
              id, caller, 0)
        /\ now' = now

Allocate ==
    \E id \in Ids, amount \in AllocAmounts :
      \E cb \in Callbacks({"transfer"}, {"allocate"}, "none", "none") :
        /\ Idle
        /\ Do([fn |-> "allocate", invoker |-> "none", id |-> id,
               target_pool |-> Pool, amount |-> amount, cb |-> cb],
              id, Pool, amount)
        /\ now' = now

UpdateValue ==
    \E id \in Ids, new_value \in NewValues :
        /\ Idle
        /\ Do([fn |-> "update_value", invoker |-> "none", id |-> id,
               new_value |-> new_value, cb |-> NoCallback],
              id, "none", new_value)
        /\ now' = now

CheckViolations ==
    \E id \in Ids :
        /\ Idle
        /\ Do([fn |-> "check_violations", invoker |-> "none", id |-> id,
               cb |-> NoCallback],
              id, "none", 0)
        /\ now' = now

GetViolationDetails ==
    \E id \in Ids :
        /\ Idle
        /\ Do([fn |-> "get_violation_details", invoker |-> "none", id |-> id,
               cb |-> NoCallback],
              id, "none", 0)
        /\ now' = now

SetRateLimit ==
    \E invoker \in {"alice", Admin}, caller \in {"alice", Admin},
       function \in LimitedFunctions, lim \in LimitChoices :
        /\ Idle
        /\ Do([fn |-> "set_rate_limit", invoker |-> invoker, caller |-> caller,
               function |-> function, window_seconds |-> lim.window_seconds,
               max_calls |-> lim.max_calls, cb |-> NoCallback],
              function, caller, 0)
        /\ now' = now

\* the ledger closes and a later one opens
Tick ==
    /\ Idle
    /\ \E t \in Times : t > now /\ now' = t
    /\ ret' = NoRet
    /\ UNCHANGED <<commitments, owner_commitments, total_commitments,
                   total_value_locked, reentrancy_guard, rl_limit, rl_count,
                   balance, token_counter, nfts, owner_balance>>
    /\ UNCHANGED <<engine_storage, timelock_storage, oracle_storage>>

\* the caller takes the outcome of its call
Return ==
    /\ ~Idle
    /\ ret' = NoRet
    /\ UNCHANGED <<commitments, owner_commitments, total_commitments,
                   total_value_locked, reentrancy_guard, rl_limit, rl_count,
                   balance, token_counter, nfts, owner_balance, now>>
    /\ UNCHANGED <<engine_storage, timelock_storage, oracle_storage>>

Next ==
    \/ CreateCommitment
    \/ Settle
    \/ EarlyExit
    \/ Allocate
    \/ UpdateValue
    \/ CheckViolations
    \/ GetViolationDetails
    \/ SetRateLimit
    \/ Tick
    \/ Return

Spec == Init /\ [][Next]_vars

-----------------------------------------------------------------------------
(* The same program without allocate: the runs in which the total value
   locked is the sum of the amounts of the active commitments. *)

NextNoAllocate ==
    \/ CreateCommitment
    \/ Settle
    \/ EarlyExit
    \/ UpdateValue
    \/ CheckViolations
    \/ SetRateLimit
    \/ Tick
    \/ Return

SpecNoAllocate == Init /\ [][NextNoAllocate]_vars

-----------------------------------------------------------------------------
(* check_violations as a function of the stored commitment and the ledger
   time: the commitment is stored directly, as the unit tests of
   commitment_core do with store_commitment. *)

TestAmounts == {0, 1000}
TestValues == {0, 889, 899, 900, 1000, 1001, 1100}
TestMaxLoss == {0, 10, 100}
TestStatuses == {"active", "settled", "violated", "early_exit"}
TestExpirations == {86400, 86401}

create_test_commitment(amount, current_value, max_loss_percent, status, expires_at) ==
    [commitment_id |-> "commitment_", owner |-> "alice", nft_token_id |-> 1,
     rules |-> Rules(1, max_loss_percent, "balanced", 10),
     amount |-> amount, created_at |-> 0, expires_at |-> expires_at,
     current_value |-> current_value, status |-> status]

store_commitment(commitment) ==
    [id \in Ids |-> IF id = commitment.commitment_id THEN commitment ELSE NoCommitment]

InitStored ==
    /\ \E amount \in TestAmounts, current_value \in TestValues,
          max_loss_percent \in TestMaxLoss, status \in TestStatuses,
          expires_at \in TestExpirations :
          commitments = store_commitment(
              create_test_commitment(amount, current_value, max_loss_percent,
                                     status, expires_at))
    /\ owner_commitments = [o \in Owners |-> <<>>]
    /\ total_commitments = 0
    /\ total_value_locked = 0
    /\ reentrancy_guard = FALSE
    /\ rl_limit = [f \in Functions |-> NoLimit]
    /\ rl_count = [k \in RLKeys |-> NoCount]
    /\ balance = [a \in Addresses |-> 0]
    /\ token_counter = 0
    /\ nfts = <<>>
    /\ owner_balance = [a \in Addresses |-> 0]
    /\ EngineInit
    /\ TimelockInit
    /\ OracleInit
    /\ now \in Times
    /\ ret = NoRet

NextStored == CheckViolations \/ GetViolationDetails \/ Return

SpecStored == InitStored /\ [][NextStored]_vars

-----------------------------------------------------------------------------
(* Properties *)

\* everything the contracts and the token store
storage == <<commitments, owner_commitments, total_commitments, total_value_locked,
             reentrancy_guard, rl_limit, rl_count, balance, token_counter, nfts,
             owner_balance>>

-----------------------------------------------------------------------------
(* The attestation engine over a stored commitment.  The commitment is      *)
(* stored in the ledger as store_core_commitment of the engine's tests      *)
(* stores it; the engine's calls then run as transactions of their own.     *)

\* the longest attestation list the model lets a call produce
MaxAttestations == 3

\* the stored commitment: <<amount, current_value, expires_at>>, at its full
\* value, with a loss of 15 percent and long expired, with a loss of 101
\* percent (a value the ledger's own entry points never store, which the i128
\* field admits), and empty
EngineCommitments ==
    {<<1000, 1000, 86400>>, <<1000, 850, 1>>, <<1000, -10, 86400>>, <<0, 0, 86400>>}
EngineMaxLoss == 10
ReportedValues == {850, 900}
FeeAmounts == {-50, 0, 50}
AttestationTypes == {"health_check", "violation"}
Recorders == {Admin, "alice"}
\* who signs a call: the caller it names, or alice whoever it names
Invokers(caller) == {caller, "alice"}

\* a call to the engine; the fields a function does not take are blank
EngineCall(fn, invoker, caller, id, amount) ==
    [fn |-> fn, invoker |-> invoker, caller |-> caller, id |-> id,
     amount |-> amount, attestation_type |-> "", data |-> "",
     verified_by |-> "none", recorder |-> "none"]

EngineOutcome(c, r) ==
    [op |-> c.fn, invoker |-> c.invoker, id |-> c.id, party |-> c.caller,
     amount |-> c.amount, rules |-> NoRules, err |-> r.err, val |-> r.val,
     cb_at |-> "none", cb_fn |-> "none", nested |-> "none"]

\* one transaction on the engine; the ledger is only read
EngineDo(c) ==
    LET r == EngineInvoke(EngineWorld, World, c, now)
    IN  /\ Idle
        /\ EngineCommit(HostCommit(EngineWorld, r))
        /\ ret' = EngineOutcome(c, r)
        /\ now' = now
        /\ UNCHANGED <<storage, timelock_storage, oracle_storage>>

\* the number of attestations stored under the ids
RECURSIVE attestation_count(_, _)
attestation_count(atts, ids) ==
    IF ids = {} THEN 0
    ELSE LET id == CHOOSE x \in ids : TRUE
         IN  Len(atts[id]) + attestation_count(atts, ids \ {id})

\* the call leaves no more than MaxAttestations attestations stored
Fits == attestation_count(attestations', Ids) <= MaxAttestations

Attest ==
    \E id \in Ids, ty \in AttestationTypes :
        /\ EngineDo([EngineCall("attest", "none", "none", id, 0) EXCEPT
                        !.attestation_type = ty, !.verified_by = "bob"])
        /\ Fits

RecordFees ==
    \E caller \in Recorders, id \in Ids, fee_amount \in FeeAmounts :
      \E invoker \in Invokers(caller) :
        /\ EngineDo(EngineCall("record_fees", invoker, caller, id, fee_amount))
        /\ Fits

RecordDrawdown ==
    \E caller \in Recorders, id \in Ids, current_value \in ReportedValues :
      \E invoker \in Invokers(caller) :
        /\ EngineDo(EngineCall("record_drawdown", invoker, caller, id, current_value))
        /\ Fits

CalculateComplianceScore ==
    \E id \in Ids :
        EngineDo(EngineCall("calculate_compliance_score", "none", "none", id, 0))

GetHealthMetrics ==
    \E id \in Ids : EngineDo(EngineCall("get_health_metrics", "none", "none", id, 0))

VerifyCompliance ==
    \E id \in Ids : EngineDo(EngineCall("verify_compliance", "none", "none", id, 0))

AddAuthorizedRecorder ==
    \E caller \in Recorders :
        EngineDo([EngineCall("add_authorized_recorder", caller, caller, "none", 0)
                     EXCEPT !.recorder = "alice"])

InitEngine ==
    /\ \E stored \in EngineCommitments :
          commitments = store_commitment(
              create_test_commitment(stored[1], stored[2], EngineMaxLoss,
                                     active_status, stored[3]))
    /\ owner_commitments = [o \in Owners |-> <<>>]
    /\ total_commitments = 0
    /\ total_value_locked = 0
    /\ reentrancy_guard = FALSE
    /\ rl_limit = [f \in Functions |-> NoLimit]
    /\ rl_count = [k \in RLKeys |-> NoCount]
    /\ balance = [a \in Addresses |-> 0]
    /\ token_counter = 0
    /\ nfts = <<>>
    /\ owner_balance = [a \in Addresses |-> 0]
    /\ EngineInit
    /\ TimelockInit
    /\ OracleInit
    /\ now = 86400
    /\ ret = NoRet

NextEngine ==
    \/ Attest
    \/ RecordFees
    \/ RecordDrawdown
    \/ CalculateComplianceScore
    \/ GetHealthMetrics
    \/ VerifyCompliance
    \/ AddAuthorizedRecorder
    \/ Tick
    \/ Return

SpecEngine == InitEngine /\ [][NextEngine]_vars

-----------------------------------------------------------------------------
(* The engine after its deployment, with initialize among the entry points  *)
(* anyone can call.  The ledger address passed is the ledger's: another     *)
(* contract behind "CORE" is outside this model.                            *)

Initialize ==
    \E invoker \in Recorders, admin \in Recorders :
        EngineDo([admin |-> admin, commitment_core |-> Core]
                    @@ EngineCall("initialize", invoker, "none", "none", 0))

NextEngineInit ==
    \/ Initialize
    \/ AddAuthorizedRecorder
    \/ RecordFees
    \/ Tick
    \/ Return

SpecEngineInit == InitEngine /\ [][NextEngineInit]_vars

-----------------------------------------------------------------------------
(* The receipt contract called directly: anyone mints, the owner of a       *)
(* receipt transfers it, anyone settles an expired one.                     *)

\* the most receipts the model lets be minted
MaxTokens == 3

\* the token ids asked for: those that can be minted and one that never is
TokenIds == 0..MaxTokens

NftInvoke(w, c, t) ==
    CASE c.fn = "mint" -> nft_mint(w, c.to, "commitment_", 1, t)
      [] c.fn = "transfer" -> nft_transfer(w, c.invoker, c.from, c.to, c.token_id)
      [] c.fn = "settle" -> nft_settle(w, c.token_id, t)
      [] c.fn = "total_supply" -> Ok(w, nft_total_supply(w), "none")
      [] c.fn = "balance_of" -> Ok(w, nft_balance_of(w, c.to), "none")

\* a call to the receipt contract; the fields a function does not take are blank
NftCall(fn, invoker, from, to, token_id) ==
    [fn |-> fn, invoker |-> invoker, from |-> from, to |-> to, token_id |-> token_id]

\* the outcome: id is the sender named, party the receiver or the owner
\* named, amount the token id
NftOutcome(c, r) ==
    [op |-> c.fn, invoker |-> c.invoker, id |-> c.from, party |-> c.to,
     amount |-> c.token_id, rules |-> NoRules, err |-> r.err, val |-> r.val,
     cb_at |-> "none", cb_fn |-> "none", nested |-> "none"]

\* one transaction on the receipt contract
NftDo(c) ==
    LET r == NftInvoke(World, c, now)
    IN  /\ Idle
        /\ Commit(HostCommit(World, r))
        /\ ret' = NftOutcome(c, r)
        /\ now' = now
        /\ UNCHANGED <<engine_storage, timelock_storage, oracle_storage>>

NftMint ==
    \E owner \in Owners :
        /\ token_counter < MaxTokens
        /\ NftDo(NftCall("mint", "none", "none", owner, 0))

NftTransfer ==
    \E invoker \in Owners, from \in Owners, to \in Owners, token_id \in TokenIds :
        NftDo(NftCall("transfer", invoker, from, to, token_id))

NftSettle ==
    \E token_id \in TokenIds : NftDo(NftCall("settle", "none", "none", "none", token_id))

NftTotalSupply == NftDo(NftCall("total_supply", "none", "none", "none", 0))

NftBalanceOf ==
    \E owner \in Owners : NftDo(NftCall("balance_of", "none", "none", owner, 0))

NextNft ==
    \/ NftMint
    \/ NftTransfer
    \/ NftSettle
    \/ NftTotalSupply
    \/ NftBalanceOf
    \/ Tick
    \/ Return

SpecNft == Init /\ [][NextNft]_vars

-----------------------------------------------------------------------------
(* The time lock on its own: the admin queues and cancels, anyone executes,  *)
(* and time passes.                                                          *)

\* the most actions the model lets the admin queue
MaxActions == 2

TimelockTimes == {0, 86399, 86400, 172800, 259200}

\* <<action type, delay>>: one second short of the type's minimum, the
\* minimum, and the longest delay and one second more
QueueInputs ==
    {<<ty, get_delay(ty) - 1>> : ty \in ActionTypes} \cup
    {<<ty, get_delay(ty)>> : ty \in ActionTypes} \cup
    {<<"ParameterChange", MAX_DELAY>>, <<"ParameterChange", MAX_DELAY + 1>>}

\* the ids asked for: those that can be queued and one that never is
ActionIds == 1..(MaxActions + 1)

\* a call to the time lock; the fields a function does not take are blank
TimelockCall(fn, invoker, action_type, delay, action_id) ==
    [fn |-> fn, invoker |-> invoker, action_type |-> action_type,
     delay |-> delay, action_id |-> action_id]

\* the outcome: party is the action type, amount the delay or the action id
TimelockOutcome(c, r) ==
    [op |-> c.fn, invoker |-> c.invoker, id |-> "none", party |-> c.action_type,
     amount |-> IF c.fn = "queue_action" THEN c.delay ELSE c.action_id,
     rules |-> NoRules, err |-> r.err, val |-> r.val,
     cb_at |-> "none", cb_fn |-> "none", nested |-> "none"]

\* one transaction on the time lock
TimelockDo(c) ==
    LET r == TimelockInvoke(TimelockWorld, c, now)
    IN  /\ Idle
        /\ TimelockCommit(HostCommit(TimelockWorld, r))
        /\ ret' = TimelockOutcome(c, r)
        /\ now' = now
        /\ UNCHANGED <<storage, engine_storage, oracle_storage>>

QueueAction ==
    \E invoker \in {Admin, "alice"}, in \in QueueInputs :
        /\ action_counter < MaxActions
        /\ TimelockDo(TimelockCall("queue_action", invoker, in[1], in[2], 0))

ExecuteAction ==
    \E action_id \in ActionIds :
        TimelockDo(TimelockCall("execute_action", "alice", "none", 0, action_id))

CancelAction ==
    \E invoker \in {Admin, "alice"}, action_id \in ActionIds :
        TimelockDo(TimelockCall("cancel_action", invoker, "none", 0, action_id))

GetAllActions == TimelockDo(TimelockCall("get_all_actions", "none", "none", 0, 0))

GetPendingActions ==
    TimelockDo(TimelockCall("get_pending_actions", "none", "none", 0, 0))

GetActionCount == TimelockDo(TimelockCall("get_action_count", "none", "none", 0, 0))

TimelockTick ==
    /\ Idle
    /\ \E t \in TimelockTimes : t > now /\ now' = t
    /\ ret' = NoRet
    /\ UNCHANGED <<storage, engine_storage, timelock_storage, oracle_storage>>

NextTimelock ==
    \/ QueueAction
    \/ ExecuteAction
    \/ CancelAction
    \/ GetAllActions
    \/ GetPendingActions
    \/ GetActionCount
    \/ TimelockTick
    \/ Return

SpecTimelock == Init /\ [][NextTimelock]_vars

-----------------------------------------------------------------------------
(* The price oracle on its own: the admin keeps the whitelist, whitelisted  *)
(* addresses push prices, anyone reads them, and time passes.               *)

OracleTimes == {0, 3599, 3600, 3601, 7200}

\* a call to the oracle: address is the oracle, the asset or the new admin
\* of the call, amount its price or its seconds, override whether
\* get_price_valid was given Some(amount)
OracleCall(fn, invoker, caller, address, amount, override) ==
    [fn |-> fn, invoker |-> invoker, caller |-> caller, address |-> address,
     amount |-> amount, override |-> override]

\* the outcome: id is the caller named, party the address, and nested tells
\* whether a staleness override was given
OracleOutcome(c, r) ==
    [op |-> c.fn, invoker |-> c.invoker, id |-> c.caller, party |-> c.address,
     amount |-> c.amount, rules |-> NoRules, err |-> r.err, val |-> r.val,
     cb_at |-> "none", cb_fn |-> "none",
     nested |-> IF c.override THEN "some" ELSE "none"]

\* one transaction on the oracle
OracleDo(c) ==
    LET r == OracleInvoke(OracleWorld, c, now)
    IN  /\ Idle
        /\ OracleCommit(HostCommit(OracleWorld, r))
        /\ ret' = OracleOutcome(c, r)
        /\ now' = now
        /\ UNCHANGED <<storage, engine_storage, timelock_storage>>

AddOracle ==
    \E caller \in {Admin, "bob"}, oracle_address \in Owners :
        \E invoker \in Invokers(caller) :
            OracleDo(OracleCall("add_oracle", invoker, caller, oracle_address, 0, FALSE))

RemoveOracle ==
    \E caller \in {Admin, "bob"}, oracle_address \in Owners :
        \E invoker \in Invokers(caller) :
            OracleDo(OracleCall("remove_oracle", invoker, caller, oracle_address, 0, FALSE))

SetPrice ==
    \E caller \in Owners, asset \in Assets, price \in {-1, 0, 100} :
        \E invoker \in Invokers(caller) :
            OracleDo(OracleCall("set_price", invoker, caller, asset, price, FALSE))

GetPriceValid ==
    \/ \E asset \in Assets :
           OracleDo(OracleCall("get_price_valid", "none", "none", asset, 0, FALSE))
    \/ \E asset \in Assets, seconds \in {0, 3601} :
           OracleDo(OracleCall("get_price_valid", "none", "none", asset, seconds, TRUE))

SetMaxStaleness ==
    \E caller \in {Admin, "bob"}, seconds \in {3599, 3600} :
        OracleDo(OracleCall("set_max_staleness", caller, caller, "none", seconds, FALSE))

SetAdmin ==
    \E caller \in {Admin, "bob"} :
        OracleDo(OracleCall("set_admin", caller, caller, "bob", 0, FALSE))

OracleTick ==
    /\ Idle
    /\ \E t \in OracleTimes : t > now /\ now' = t
    /\ ret' = NoRet
    /\ UNCHANGED <<storage, engine_storage, timelock_storage, oracle_storage>>

NextOracle ==
    \/ AddOracle
    \/ RemoveOracle
    \/ SetPrice
    \/ GetPriceValid
    \/ SetMaxStaleness
    \/ SetAdmin
    \/ OracleTick
    \/ Return

SpecOracle == Init /\ [][NextOracle]_vars

-----------------------------------------------------------------------------
(* Early exit under the penalties create_commitment accepts: the field is   *)
(* a u32 that validate_rules does not look at.                              *)

PenaltyChoices == {5, 100, 150}

CreateWithPenalty ==
    \E owner \in Owners, penalty \in PenaltyChoices :
        /\ Idle
        /\ Do([fn |-> "create_commitment", invoker |-> owner, owner |-> owner,
               amount |-> 1000, rules |-> Rules(1, 10, "safe", penalty),
               cb |-> NoCallback],
              generate_commitment_id(World, owner), owner, 1000)
        /\ now' = now

NextPenalty ==
    \/ CreateWithPenalty
    \/ EarlyExit
    \/ Allocate
    \/ Tick
    \/ Return

SpecPenalty == Init /\ [][NextPenalty]_vars

-----------------------------------------------------------------------------
(* The ledger and the receipt contract together: the receipt contract's     *)
(* entry points are public, so anyone can call them between two calls to    *)
(* the ledger.                                                              *)

NextLedgerNft ==
    \/ CreateCommitment
    \/ Settle
    \/ NftTransfer
    \/ NftSettle
    \/ Tick
    \/ Return

SpecLedgerNft == Init /\ [][NextLedgerNft]_vars

-----------------------------------------------------------------------------
(* The rate limits: the admin also limits update_value, whose calls can      *)
(* succeed any number of times, against the passing of time.                 *)

UpdateLimitChoices ==
    {[window_seconds |-> 60, max_calls |-> 1], [window_seconds |-> 60, max_calls |-> 2]}

SetUpdateValueLimit ==
    \E caller \in {"alice", Admin}, lim \in UpdateLimitChoices :
        /\ Idle
        /\ Do([fn |-> "set_rate_limit", invoker |-> caller, caller |-> caller,
               function |-> "upd_val", window_seconds |-> lim.window_seconds,
               max_calls |-> lim.max_calls, cb |-> NoCallback],
              "upd_val", caller, 0)
        /\ now' = now

NextRateLimit ==
    \/ SetUpdateValueLimit
    \/ SetRateLimit
    \/ UpdateValue
    \/ CreateCommitment
    \/ Allocate
    \/ Tick
    \/ Return

SpecRateLimit == Init /\ [][NextRateLimit]_vars

-----------------------------------------------------------------------------
(* The drawdown percent as a function of the stored commitment and of the    *)
(* reported value: get_health_metrics and record_drawdown over the           *)
(* commitments of InitStored.                                                *)

\* record_drawdown by the admin with a value drawn from the test values
ReportValue ==
    \E current_value \in TestValues :
        /\ EngineDo(EngineCall("record_drawdown", Admin, Admin, "commitment_",
                               current_value))
        /\ Fits

NextDrawdown == GetHealthMetrics \/ ReportValue \/ Return

SpecDrawdown == InitStored /\ [][NextDrawdown]_vars

\* C1: the status of a stored commitment changes only from active to settled,
\* by a successful settle of that commitment, or from active to early_exit, by
\* a successful early_exit of it; a settled or early_exit commitment keeps its
\* status in every later state.
C1_StatusTransitions ==
    [][\A id \in Ids :
          LET old == commitments[id]
              new == commitments'[id]
          IN  /\ old # NoCommitment => new # NoCommitment
              /\ (old # NoCommitment /\ new.status # old.status) =>
                    /\ old.status = "active"
                    /\ ret'.err = ""
                    /\ ret'.id = id
                    /\ \/ new.status = "settled" /\ ret'.op = "settle"
                       \/ new.status = "early_exit" /\ ret'.op = "early_exit"
              /\ (old # NoCommitment /\ old.status \in {"settled", "early_exit"}) =>
                    new.status = old.status]_vars

\* a commitment has been settled by settle
C1_Witness ==
    /\ ret.op = "settle"
    /\ ret.err = ""
    /\ commitments[ret.id].status = "settled"

RECURSIVE SumActiveAmounts(_, _)
\* the sum of amount over the active commitments among ids
SumActiveAmounts(cs, ids) ==
    IF ids = {} THEN 0
    ELSE LET id == CHOOSE i \in ids : TRUE
             here == IF cs[id] # NoCommitment /\ cs[id].status = "active"
                     THEN cs[id].amount ELSE 0
         IN  here + SumActiveAmounts(cs, ids \ {id})

\* C2: in executions without allocate, the total value locked equals the sum
\* of amount over the commitments whose status is active.
C2_TotalValueLocked ==
    total_value_locked = SumActiveAmounts(commitments, Ids)

\* an early exit has brought the total back to the sum over what is left
C2_Witness ==
    /\ ret.op = "early_exit"
    /\ ret.err = ""
    /\ commitments[ret.id].status = "early_exit"
    /\ commitments[ret.id].amount > 0
    /\ total_value_locked = 0

\* C3: when a callee invoked during create_commitment calls back into a
\* guarded entry point, the nested call aborts with "Reentrancy detected",
\* the outer call aborts with it, and nothing the outer call wrote persists.
C3_ReentrantCreate ==
    [][(ret'.op = "create_commitment" /\ ret'.nested # "none") =>
          /\ ret'.nested = "Reentrancy detected"
          /\ ret'.err = "Reentrancy detected"
          /\ UNCHANGED storage]_vars

\* the receipt component called early_exit back while a mint was in progress
C3_Witness ==
    /\ ret.op = "create_commitment"
    /\ ret.cb_at = "nft"
    /\ ret.cb_fn = "early_exit"
    /\ ret.nested = "Reentrancy detected"
    /\ commitments["commitment_"] = NoCommitment

\* C4: a call to a guarded entry point that aborts leaves the commitments, the
\* counters and the reentrancy flag as they were, and the flag is clear
\* whenever no call is in progress.
C4_AbortsLeaveNothing ==
    /\ [](reentrancy_guard = FALSE)
    /\ [][(ret'.op \in GuardedEntryPoints /\ ret'.err # "") =>
             UNCHANGED <<commitments, owner_commitments, total_commitments,
                         total_value_locked, reentrancy_guard>>]_vars

\* a creation aborted by the rate limiter, after the guard was set
C4_Witness ==
    /\ ret.op = "create_commitment"
    /\ ret.err = "Rate limit exceeded"
    /\ reentrancy_guard = FALSE

\* C5: early_exit of a commitment succeeds only in a call authenticated by
\* the owner of that commitment.
C5_OnlyOwnerExits ==
    (ret.op = "early_exit" /\ ret.err = "") =>
        ret.invoker = commitments[ret.id].owner

C7_SettleAborts ==
    [][ret'.op = "settle" =>
          LET c == commitments[ret'.id]
          IN  (\/ c = NoCommitment
               \/ now < c.expires_at
               \/ c.status # "active") =>
                  /\ ret'.err # ""
                  /\ UNCHANGED storage]_vars

\* settle was refused on a commitment that had been exited
C7_Witness ==
    /\ ret.op = "settle"
    /\ ret.err = "Commitment is not active"
    /\ commitments[ret.id].status = "early_exit"
    /\ now >= commitments[ret.id].expires_at

\* C8: a successful settle moves exactly current_value from the contract to
\* the owner, sets the status to settled, lowers the total value locked by
\* that amount and settles the receipt whose token id the commitment stores.
C8_SettleEffects ==
    [][(ret'.op = "settle" /\ ret'.err = "") =>
          LET c == commitments[ret'.id]
          IN  /\ c # NoCommitment
              /\ balance' = [balance EXCEPT ![Core] = @ - c.current_value,
                                            ![c.owner] = @ + c.current_value]
              /\ commitments' = [commitments EXCEPT ![ret'.id].status = "settled"]
              /\ total_value_locked' = total_value_locked - c.current_value
              /\ nfts[c.nft_token_id + 1].commitment_id = ret'.id
              /\ nfts[c.nft_token_id + 1].is_active
              /\ nfts' = [nfts EXCEPT ![c.nft_token_id + 1].is_active = FALSE]]_vars

\* a commitment worth 399 of its 1000 was settled and paid 399
C8_Witness ==
    /\ ret.op = "settle"
    /\ ret.err = ""
    /\ commitments[ret.id].status = "settled"
    /\ commitments[ret.id].amount = 1000
    /\ commitments[ret.id].current_value = 399
    /\ balance[commitments[ret.id].owner] = 399
    /\ ~nfts[commitments[ret.id].nft_token_id + 1].is_active

\* C9: a successful early_exit pays the owner current_value minus
\* floor(current_value * early_exit_penalty / 100), lowers the total value
\* locked by the full current_value and leaves the penalty with the contract.
C9_EarlyExitPenalty ==
    [][(ret'.op = "early_exit" /\ ret'.err = "") =>
          LET c == commitments[ret'.id]
              v == c.current_value
              penalty == (v * c.rules.early_exit_penalty) \div 100
          IN  /\ c # NoCommitment
              /\ balance' = [balance EXCEPT ![Core] = @ - (v - penalty),
                                            ![c.owner] = @ + (v - penalty)]
              /\ balance'[Core] = balance[Core] - v + penalty
              /\ total_value_locked' = total_value_locked - v
              /\ commitments' = [commitments EXCEPT ![ret'.id].status = "early_exit"]
              /\ (v = 1000 /\ c.rules.early_exit_penalty = 5) =>
                     balance'[c.owner] = balance[c.owner] + 950]_vars

\* 399 exited at 5 percent: 380 paid, 19 kept by the contract
C9_Witness ==
    /\ ret.op = "early_exit"
    /\ ret.err = ""
    /\ commitments[ret.id].current_value = 399
    /\ commitments[ret.id].rules.early_exit_penalty = 5
    /\ balance[commitments[ret.id].owner] = 380
    /\ balance[Core] = 19

\* C10: every commitment gets an identifier of its own, so a commitment that
\* exists never makes a later creation fail.
C10_ExistingNeverBlocks ==
    ret.op = "create_commitment" => ret.err # "Commitment already exists"

\* C11: total_commitments is the number of successful create_commitment
\* calls so far: it starts at 0, a successful create adds exactly 1, and every
\* other call, and every aborted call, leaves it as it is.
C11_TotalCommitments ==
    /\ total_commitments = 0
    /\ [][IF ret'.op = "create_commitment" /\ ret'.err = ""
          THEN total_commitments' = total_commitments + 1
          ELSE total_commitments' = total_commitments]_vars

\* one creation has succeeded and has been counted
C11_Witness ==
    /\ ret.op = "create_commitment"
    /\ ret.err = ""
    /\ total_commitments = 1

\* C12: a successful create_commitment(owner, amount, asset, rules) at time
\* now stores under the returned id a commitment of that owner, amount and
\* rules, active, with current_value = amount and expires_at = now +
\* duration_days * 86400, appends the id to the owner's index, raises the total
\* value locked by amount and moves amount from the owner to the contract.
C12_CreateEffects ==
    [][(ret'.op = "create_commitment" /\ ret'.err = "") =>
          LET id == ret'.val
              owner == ret'.party
              amount == ret'.amount
              new == commitments'[id]
          IN  /\ commitments[id] = NoCommitment
              /\ new # NoCommitment
              /\ new.commitment_id = id
              /\ new.owner = owner
              /\ new.amount = amount
              /\ new.rules = ret'.rules
              /\ new.status = "active"
              /\ new.current_value = amount
              /\ new.created_at = now
              /\ new.expires_at = now + ret'.rules.duration_days * 86400
              /\ \A other \in Ids \ {id} : commitments'[other] = commitments[other]
              /\ owner_commitments' =
                     [owner_commitments EXCEPT ![owner] = Append(@, id)]
              /\ total_value_locked' = total_value_locked + amount
              /\ balance' = [balance EXCEPT ![owner] = @ - amount,
                                            ![Core] = @ + amount]]_vars

\* a commitment of 1000 created at time 1: the owner has paid it in full
C12_Witness ==
    /\ ret.op = "create_commitment"
    /\ ret.err = ""
    /\ commitments["commitment_"].created_at = 1
    /\ commitments["commitment_"].expires_at = 86401
    /\ owner_commitments[ret.party] = <<"commitment_">>
    /\ balance[ret.party] = 0
    /\ balance[Core] = 1000

\* C13: create_commitment with amount <= 0, duration_days = 0,
\* max_loss_percent > 100 or a commitment type outside safe, balanced,
\* aggressive aborts: no commitment is created, the counters and the owner's
\* index stay as they are, and no asset moves.
C13_InvalidCreateAborts ==
    [][(/\ ret'.op = "create_commitment"
        /\ \/ ret'.amount <= 0
           \/ ret'.rules.duration_days = 0
           \/ ret'.rules.max_loss_percent > 100
           \/ ret'.rules.commitment_type \notin {"safe", "balanced", "aggressive"}) =>
          /\ ret'.err # ""
          /\ UNCHANGED storage]_vars

\* a creation with an unknown commitment type was refused
C13_Witness ==
    /\ ret.op = "create_commitment"
    /\ ret.rules.commitment_type = "growth"
    /\ ret.err = "Invalid commitment type"
    /\ commitments["commitment_"] = NoCommitment

\* C14: allocate succeeds only with amount > 0 on an active commitment whose
\* current_value is at least amount; it then lowers current_value by amount,
\* moves amount to the target pool and changes nothing else of the
\* commitment; in every other case it aborts with no change; current_value
\* is never negative.
C14_Allocate ==
    /\ [](\A id \in Ids :
             commitments[id] # NoCommitment => commitments[id].current_value >= 0)
    /\ [][ret'.op = "allocate" =>
             LET c == commitments[ret'.id]
                 amount == ret'.amount
                 allowed == /\ amount > 0
                            /\ c # NoCommitment
                            /\ c.status = "active"
                            /\ c.current_value >= amount
             IN  /\ ret'.err = "" =>
                        /\ allowed
                        /\ commitments' =
                               [commitments EXCEPT ![ret'.id].current_value = @ - amount]
                        /\ balance' = [balance EXCEPT ![Core] = @ - amount,
                                                      ![ret'.party] = @ + amount]
                 /\ ~allowed =>
                        /\ ret'.err # ""
                        /\ UNCHANGED storage]_vars

\* the whole value of a commitment was allocated to the pool
C14_Witness ==
    /\ ret.op = "allocate"
    /\ ret.err = ""
    /\ commitments[ret.id].status = "active"
    /\ commitments[ret.id].current_value = 0
    /\ balance[Pool] = 1000

\* C15: after a successful update_value(id, new_value) the stored
\* current_value of the commitment is new_value.
C15_UpdateStoresValue ==
    (ret.op = "update_value" /\ ret.err = "" /\ commitments[ret.id] # NoCommitment) =>
        commitments[ret.id].current_value = ret.amount

\* C16: check_violations and get_violation_details change nothing that is
\* stored: commitments with their status, counters, owner index and
\* reentrancy flag are after the call what they were before it.
C16_ViolationChecksReadOnly ==
    [][ret'.op \in {"check_violations", "get_violation_details"} =>
          UNCHANGED storage]_vars

\* a violation was reported and the commitment is still active
C16_Witness ==
    /\ ret.op = "check_violations"
    /\ ret.err = ""
    /\ ret.val = TRUE
    /\ commitments[ret.id].status = "active"

\* what get_violation_details reports apart from its verdict: loss_violated
\* iff the loss percent exceeds max_loss_percent, duration_violated iff the
\* time is at or past expires_at, has_violations their disjunction, and
\* time_remaining the time left to expires_at, 0 once it is reached
DetailsWellFormed(c, d, t) ==
    LET loss == IF c.amount > 0
                THEN ((c.amount - c.current_value) * 100) \div c.amount
                ELSE 0
    IN  /\ d.loss_violated = (loss > c.rules.max_loss_percent)
        /\ d.duration_violated = (t >= c.expires_at)
        /\ d.has_violations = (d.loss_violated \/ d.duration_violated)
        /\ d.time_remaining = IF t < c.expires_at THEN c.expires_at - t ELSE 0

C18_FixedFields ==
    [][\A id \in Ids :
          LET old == commitments[id]
              new == commitments'[id]
          IN  old # NoCommitment =>
                  /\ new # NoCommitment
                  /\ new.amount = old.amount
                  /\ new.rules = old.rules
                  /\ new.created_at = old.created_at
                  /\ new.expires_at = old.expires_at
                  /\ new.owner = old.owner]_vars

\* an allocation lowered the value of a commitment and left its amount
C18_Witness ==
    /\ ret.op = "allocate"
    /\ ret.err = ""
    /\ commitments[ret.id].amount = 1000
    /\ commitments[ret.id].current_value = 399

IsPrefix(s, t) == Len(s) <= Len(t) /\ SubSeq(t, 1, Len(s)) = s

\* C19: attestations are append-only: across every operation of the
\* attestation engine the list stored for each commitment id before the call
\* is a prefix of the list after it; a successful attest appends exactly one
\* entry, with timestamp = now and is_compliant = TRUE, to the list of its id.
C19_AppendOnly ==
    [][ /\ \A id \in Ids : IsPrefix(attestations[id], attestations'[id])
        /\ (ret'.op = "attest") =>
              /\ ret'.err = ""
              /\ Len(attestations'[ret'.id]) = Len(attestations[ret'.id]) + 1
              /\ LET added == attestations'[ret'.id][Len(attestations'[ret'.id])]
                 IN  /\ added.timestamp = now
                     /\ added.is_compliant = TRUE
              /\ \A id \in Ids \ {ret'.id} : attestations'[id] = attestations[id]
      ]_vars

\* C19 witness: an attest at a later time has appended to a list that already
\* held an attestation recorded by record_drawdown.
C19_Witness ==
    /\ ret.op = "attest"
    /\ ret.err = ""
    /\ Len(attestations[ret.id]) >= 2
    /\ attestations[ret.id][1].attestation_type = "drawdown"
    /\ attestations[ret.id][1].timestamp < now
    /\ attestations[ret.id][Len(attestations[ret.id])].timestamp = now

\* C20: record_drawdown(caller, id, v) by an authorized recorder on a stored
\* commitment succeeds and computes loss = (amount - v) * 100 div amount (0
\* when amount is 0): when loss > max_loss_percent it appends a "violation"
\* attestation with is_compliant = FALSE and then a "drawdown" attestation with
\* is_compliant = FALSE; otherwise, equality included, it appends exactly one
\* "drawdown" attestation with is_compliant = TRUE.
C20_RecordDrawdown ==
    [][ (ret'.op = "record_drawdown") =>
        LET id == ret'.id
            commitment == commitments[id]
            v == ret'.amount
            loss == IF commitment.amount = 0 THEN 0
                    ELSE i128_div((commitment.amount - v) * 100, commitment.amount)
            before == attestations[id]
            after == attestations'[id]
            n == Len(before)
        IN  /\ (ret'.err = "") <=>
                   /\ ret'.invoker = ret'.party
                   /\ ret'.party = engine_admin \/ ret'.party \in authorized_recorders
                   /\ commitment # NoCommitment
            /\ (ret'.err = "") =>
                   /\ IsPrefix(before, after)
                   /\ IF loss > commitment.rules.max_loss_percent
                      THEN /\ Len(after) = n + 2
                           /\ after[n + 1].attestation_type = "violation"
                           /\ after[n + 1].is_compliant = FALSE
                           /\ after[n + 2].attestation_type = "drawdown"
                           /\ after[n + 2].is_compliant = FALSE
                      ELSE /\ Len(after) = n + 1
                           /\ after[n + 1].attestation_type = "drawdown"
                           /\ after[n + 1].is_compliant = TRUE
      ]_vars

\* C20 witness: a drawdown to 850 of 1000 (loss 15 > 10) recorded a violation
\* and a non-compliant drawdown, and a later report of 900 (loss 10 = 10)
\* recorded a single compliant drawdown.
C20_Witness ==
    /\ ret.op = "record_drawdown"
    /\ ret.err = ""
    /\ ret.amount = 900
    /\ commitments[ret.id].amount = 1000
    /\ commitments[ret.id].rules.max_loss_percent = 10
    /\ Len(attestations[ret.id]) = 3
    /\ attestations[ret.id][1].attestation_type = "violation"
    /\ ~attestations[ret.id][1].is_compliant
    /\ attestations[ret.id][2].attestation_type = "drawdown"
    /\ ~attestations[ret.id][2].is_compliant
    /\ attestations[ret.id][3].attestation_type = "drawdown"
    /\ attestations[ret.id][3].is_compliant

\* some stored attestation of id is marked non-compliant
HasNonCompliant(atts, id) ==
    \E i \in 1..Len(atts[id]) : atts[id][i].is_compliant = FALSE

\* C21: verify_compliance(id) returns FALSE iff some stored attestation of id
\* has is_compliant = FALSE or the drawdown percent of the ledger's commitment
\* exceeds 100.  A successful record_drawdown of 850 against amount 1000 and
\* max_loss_percent 10 leaves a non-compliant attestation stored, and no step
\* removes or clears one, so every later verify_compliance of that commitment
\* returns FALSE.
C21_VerifyCompliance ==
    /\ [](ret.op = "verify_compliance" /\ ret.err = "" =>
           LET id == ret.id
               commitment == commitments[id]
               drawdown == IF commitment.amount > 0
                           THEN i128_div((commitment.amount - commitment.current_value)
                                         * 100, commitment.amount)
                           ELSE 0
           IN  (ret.val = FALSE) <=>
                   (HasNonCompliant(attestations, id) \/ drawdown > 100))
    /\ [][ /\ (ret'.op = "verify_compliance") =>
                  attestations' = attestations /\ commitments' = commitments
           /\ (/\ ret'.op = "record_drawdown"
               /\ ret'.err = ""
               /\ ret'.amount = 850
               /\ commitments[ret'.id].amount = 1000
               /\ commitments[ret'.id].rules.max_loss_percent = 10)
              => HasNonCompliant(attestations', ret'.id)
           /\ \A id \in Ids :
                 /\ HasNonCompliant(attestations, id)
                       => HasNonCompliant(attestations', id)
                 /\ commitments'[id] = commitments[id]
         ]_vars

\* C21 witness: verify_compliance answered FALSE for a commitment whose list
\* starts with the violation recorded by record_drawdown and ends with a
\* compliant attestation added later.
C21_Witness ==
    /\ ret.op = "verify_compliance"
    /\ ret.err = ""
    /\ ret.val = FALSE
    /\ Len(attestations[ret.id]) = 3
    /\ attestations[ret.id][1].attestation_type = "violation"
    /\ ~attestations[ret.id][1].is_compliant
    /\ attestations[ret.id][3].is_compliant
    /\ commitments[ret.id].current_value = 1000

Clamp(x, lo, hi) == IF x < lo THEN lo ELSE IF x > hi THEN hi ELSE x

\* the scores C22 allows for id in the current state
ScoreValues(id) ==
    LET commitment == commitments[id]
        atts == attestations[id]
        k == Cardinality({i \in 1..Len(atts) :
                             \/ atts[i].is_compliant = FALSE
                             \/ atts[i].attestation_type = "violation"})
        loss == IF commitment.amount > 0
                THEN i128_div((commitment.amount - commitment.current_value) * 100,
                              commitment.amount)
                ELSE 0
        excess == loss - commitment.rules.max_loss_percent
        over == IF excess > 0 THEN excess ELSE 0
        threshold == commitment.rules.min_fee_threshold
        percent == (fees[id] * 100) \div threshold
        bonus == IF threshold > 0 /\ fees[id] > 0
                 THEN (IF percent < 100 THEN percent ELSE 100)
                 ELSE 0
    IN  {Clamp(100 - 20 * k - over + bonus + sched, 0, 100) : sched \in {0, 10}}

\* C22: calculate_compliance_score(id) returns
\* clamp(100 - 20*k - over + bonus + sched, 0, 100), with k the number of
\* attestations that are non-compliant or typed "violation", over the excess of
\* the live commitment's loss percent over max_loss_percent (0 when there is
\* none), bonus = min(100, total_fees * 100 div min_fee_threshold) when both
\* are positive (else 0) and sched 10 or 0; the clamping happens once, at the
\* end; the result lies in 0..100 and the compliance_score of
\* get_health_metrics is the same score.
C22_ComplianceScore ==
    /\ (ret.op = "calculate_compliance_score" /\ ret.err = "") =>
          /\ ret.val \in ScoreValues(ret.id)
          /\ ret.val \in 0..100
          /\ ret.val = compliance_score(EngineWorld, commitments[ret.id], ret.id, now)
    /\ (ret.op = "get_health_metrics" /\ ret.err = "") =>
          /\ ret.val.compliance_score \in ScoreValues(ret.id)
          /\ ret.val.compliance_score \in 0..100
          /\ ret.val.compliance_score =
                 compliance_score(EngineWorld, commitments[ret.id], ret.id, now)

\* C22 witness: with a loss of 101 percent, one attestation typed "violation"
\* and fees of 100 against a threshold of 100, the score is
\* 100 - 20 - 91 + 100 + 10 = 99: the sum falls below 0 before the bonuses and
\* is not raised to 0 there.
C22_Witness ==
    /\ ret.op = "calculate_compliance_score"
    /\ ret.err = ""
    /\ ret.val = 99
    /\ fees[ret.id] = 100
    /\ commitments[ret.id].current_value = -10
    /\ commitments[ret.id].rules.min_fee_threshold = 100

\* C23: the fee total of a commitment starts at 0, grows by exactly the amount
\* of every successful record_fees for it and changes in no other step, so it
\* is the sum of the amounts of the successful calls and never decreases;
\* get_health_metrics reports it as fees_generated.  A successful record_fees
\* has a positive amount and appends exactly one "fee_generation" attestation;
\* a record_fees with amount <= 0 aborts and leaves the fee total, the
\* attestations and the stored metrics unchanged.
C23_RecordFees ==
    /\ [](/\ \A id \in Ids : fees[id] >= 0
          /\ (ret.op = "get_health_metrics" /\ ret.err = "") =>
                 ret.val.fees_generated = fees[ret.id])
    /\ [][ /\ \A id \in Ids :
                 IF ret'.op = "record_fees" /\ ret'.err = "" /\ ret'.id = id
                 THEN /\ ret'.amount > 0
                      /\ fees'[id] = fees[id] + ret'.amount
                      /\ Len(attestations'[id]) = Len(attestations[id]) + 1
                      /\ IsPrefix(attestations[id], attestations'[id])
                      /\ attestations'[id][Len(attestations'[id])].attestation_type
                             = "fee_generation"
                      /\ health_metrics'[id].fees_generated = fees'[id]
                 ELSE /\ fees'[id] = fees[id]
                      /\ (ret'.op = "record_fees") => attestations'[id] = attestations[id]
           /\ (ret'.op = "record_fees" /\ ret'.amount <= 0) =>
                  /\ ret'.err # ""
                  /\ UNCHANGED engine_storage
         ]_vars

\* C23 witness: a second record_fees of 50 has brought the total to 100, with
\* two "fee_generation" attestations stored.
C23_Witness ==
    /\ ret.op = "record_fees"
    /\ ret.err = ""
    /\ ret.amount = 50
    /\ fees[ret.id] = 100
    /\ Len(attestations[ret.id]) >= 2
    /\ attestations[ret.id][1].attestation_type = "fee_generation"
    /\ attestations[ret.id][Len(attestations[ret.id])].attestation_type = "fee_generation"
    /\ health_metrics[ret.id].fees_generated = 100

RecordingCalls == {"record_fees", "record_drawdown"}

\* C24: record_fees and record_drawdown succeed only for an authenticated
\* caller that is the admin or was added before by the admin with
\* add_authorized_recorder; for any other caller they abort and leave the fee
\* totals, the attestations and the stored metrics unchanged;
\* add_authorized_recorder by anyone but the admin is rejected, so the set of
\* recorders changes only in a successful call by the admin.
C24_AuthorizedRecorders ==
    [][ LET authorized == /\ ret'.invoker = ret'.party
                          /\ \/ ret'.party = engine_admin
                             \/ ret'.party \in authorized_recorders
        IN  /\ (ret'.op \in RecordingCalls /\ ret'.err = "") => authorized
            /\ (ret'.op \in RecordingCalls /\ ~authorized) =>
                   /\ ret'.err # ""
                   /\ UNCHANGED <<fees, attestations, health_metrics>>
            /\ (ret'.op = "add_authorized_recorder"
                  /\ ~(ret'.invoker = ret'.party /\ ret'.party = engine_admin)) =>
                   /\ ret'.err # ""
                   /\ authorized_recorders' = authorized_recorders
            /\ (authorized_recorders' # authorized_recorders) =>
                   /\ ret'.op = "add_authorized_recorder"
                   /\ ret'.err = ""
                   /\ ret'.party = engine_admin
            /\ engine_admin' = engine_admin
      ]_vars

\* C24 witness: alice, whom the admin has added, has recorded fees, after her
\* own attempt to add herself was refused.
C24_Witness ==
    /\ ret.op = "record_fees"
    /\ ret.err = ""
    /\ ret.party = "alice"
    /\ ret.invoker = "alice"
    /\ "alice" \in authorized_recorders
    /\ engine_admin = Admin
    /\ fees[ret.id] = 50

\* floor((initial_value - current_value) * 100 / initial_value), 0 for an
\* initial value of 0
FloorPercent(initial_value, current_value) ==
    IF initial_value > 0
    THEN ((initial_value - current_value) * 100) \div initial_value
    ELSE 0

\* C25: the drawdown percent that get_health_metrics computes from the live
\* commitment and that record_drawdown computes from the reported value is
\* floor((initial_value - current_value) * 100 / initial_value) for every
\* initial_value > 0 and every current_value, negative when current_value >
\* initial_value, and 0 when initial_value is 0.
C25_DrawdownFloor ==
    /\ (ret.op = "get_health_metrics" /\ ret.err = "") =>
          ret.val.drawdown_percent =
              FloorPercent(commitments[ret.id].amount,
                           commitments[ret.id].current_value)
    /\ (ret.op = "record_drawdown" /\ ret.err = "") =>
          health_metrics[ret.id].drawdown_percent =
              FloorPercent(commitments[ret.id].amount, ret.amount)

\* the rate-limited function a call belongs to, and the key it is counted under
LimitedFunction(op) ==
    CASE op = "create_commitment" -> "create"
      [] op = "allocate" -> "alloc"
      [] op = "update_value" -> "upd_val"

LimitKey(r) ==
    CASE r.op = "create_commitment" -> r.party
      [] r.op = "allocate" -> Pool
      [] r.op = "update_value" -> Core

-----------------------------------------------------------------------------
\* the least delay of an action type, in days of 86400 seconds
TypeMinimumDays(action_type) ==
    CASE action_type \in {"ParameterChange", "FeeChange"} -> 1
      [] action_type = "AdminChange" -> 2
      [] action_type = "Upgrade" -> 3

\* C27: every queued action has executable_at at least its type's minimum
\* delay (1 day ParameterChange and FeeChange, 2 days AdminChange, 3 days
\* Upgrade) after queued_at, and an executed action has now >= executable_at;
\* a queue_action that succeeds stores queued_at = now and executable_at =
\* now + delay; execute_action of a pending action succeeds and marks it
\* executed when now >= executable_at (so also at exactly executable_at), and
\* otherwise returns DelayNotMet and leaves the action as it was; nothing but
\* a successful execute_action marks an action executed.
C27_ExecuteAfterDelay ==
    /\ [](\A id \in DOMAIN actions :
            /\ actions[id].executable_at - actions[id].queued_at
                   >= 86400 * TypeMinimumDays(actions[id].action_type)
            /\ actions[id].executed => now >= actions[id].executable_at)
    /\ [][ /\ \A id \in DOMAIN actions' :
                /\ id \notin DOMAIN actions =>
                       /\ ret'.op = "queue_action" /\ ret'.err = ""
                       /\ actions'[id].queued_at = now
                       /\ actions'[id].executable_at = now + ret'.amount
                       /\ ~actions'[id].executed
                /\ (id \in DOMAIN actions /\ actions'[id].executed
                        /\ ~actions[id].executed) =>
                       /\ ret'.op = "execute_action" /\ ret'.err = ""
                       /\ ret'.amount = id
                       /\ now >= actions[id].executable_at
           /\ (/\ ret'.op = "execute_action"
               /\ ret'.amount \in DOMAIN actions
               /\ ~actions[ret'.amount].executed
               /\ ~actions[ret'.amount].cancelled) =>
                  IF now >= actions[ret'.amount].executable_at
                  THEN /\ ret'.err = ""
                       /\ actions'[ret'.amount].executed
                  ELSE /\ ret'.err = "DelayNotMet"
                       /\ actions' = actions
         ]_vars

\* C27 witness: an Upgrade was executed at exactly its executable_at, three
\* days after it was queued.
C27_Witness ==
    /\ ret.op = "execute_action"
    /\ ret.err = ""
    /\ ret.amount \in DOMAIN actions
    /\ actions[ret.amount].action_type = "Upgrade"
    /\ actions[ret.amount].executed
    /\ actions[ret.amount].executable_at = now
    /\ actions[ret.amount].queued_at = now - 259200

\* the ids of the actions with neither flag set
PendingIds == {id \in DOMAIN actions : ~actions[id].executed /\ ~actions[id].cancelled}

\* C28: no action is both executed and cancelled; a flag that is set stays
\* set; execute_action of a cancelled action returns ActionCancelled and of
\* an executed one ActionAlreadyExecuted; the admin's cancel_action of an
\* executed action returns CannotCancelExecutedAction and of a cancelled one
\* ActionAlreadyCancelled; each of these leaves the actions unchanged; and
\* get_pending_actions lists, each once, exactly the actions with neither
\* flag set.
C28_ExecutedOrCancelled ==
    /\ [](/\ \A id \in DOMAIN actions :
                ~(actions[id].executed /\ actions[id].cancelled)
          /\ (ret.op = "get_pending_actions") =>
                /\ ret.err = ""
                /\ {ret.val[i] : i \in 1..Len(ret.val)} = PendingIds
                /\ Len(ret.val) = Cardinality(PendingIds))
    /\ [][ /\ \A id \in DOMAIN actions :
                /\ id \in DOMAIN actions'
                /\ actions[id].executed => actions'[id].executed
                /\ actions[id].cancelled => actions'[id].cancelled
           /\ (ret'.op = "execute_action" /\ ret'.amount \in DOMAIN actions) =>
                /\ actions[ret'.amount].cancelled =>
                       ret'.err = "ActionCancelled" /\ actions' = actions
                /\ actions[ret'.amount].executed =>
                       ret'.err = "ActionAlreadyExecuted" /\ actions' = actions
           /\ (/\ ret'.op = "cancel_action"
               /\ ret'.invoker = timelock_admin
               /\ ret'.amount \in DOMAIN actions) =>
                /\ actions[ret'.amount].executed =>
                       ret'.err = "CannotCancelExecutedAction" /\ actions' = actions
                /\ actions[ret'.amount].cancelled =>
                       ret'.err = "ActionAlreadyCancelled" /\ actions' = actions
         ]_vars

\* C28 witness: of two queued actions the first was executed, and the admin's
\* attempt to cancel it was refused.
C28_Witness ==
    /\ ret.op = "cancel_action"
    /\ ret.err = "CannotCancelExecutedAction"
    /\ ret.amount = 1
    /\ actions[1].executed
    /\ ~actions[1].cancelled
    /\ action_counter = 2

\* C29: the admin's queue_action with a delay below the type's minimum
\* returns DelayTooShort, and with a delay above 2592000 returns
\* DelayTooLong, the counter, the actions and the list of ids unchanged; a
\* successful queue_action returns the previous count plus one, which is the
\* new count; the stored ids are exactly 1..action_counter, the list of ids
\* holds each of them once, and get_action_count and get_all_actions return
\* the counter and that list.
C29_QueueAction ==
    /\ [](/\ DOMAIN actions = 1..action_counter
          /\ \A id \in DOMAIN actions : actions[id].id = id
          /\ Len(action_ids) = action_counter
          /\ {action_ids[i] : i \in 1..Len(action_ids)} = 1..action_counter
          /\ (ret.op = "get_action_count") => ret.val = action_counter
          /\ (ret.op = "get_all_actions") => ret.val = action_ids
          /\ (ret.op = "queue_action" /\ ret.err = "") => ret.val = action_counter)
    /\ [][ (ret'.op = "queue_action" /\ ret'.invoker = timelock_admin) =>
              IF ret'.amount < 86400 * TypeMinimumDays(ret'.party)
              THEN ret'.err = "DelayTooShort" /\ UNCHANGED timelock_storage
              ELSE IF ret'.amount > 2592000
              THEN ret'.err = "DelayTooLong" /\ UNCHANGED timelock_storage
              ELSE /\ ret'.err = ""
                   /\ action_counter' = action_counter + 1
                   /\ action_ids' = Append(action_ids, action_counter + 1)
         ]_vars

\* C29 witness: the second action was queued with the longest delay allowed
\* and got id 2.
C29_Witness ==
    /\ ret.op = "queue_action"
    /\ ret.err = ""
    /\ ret.amount = 2592000
    /\ ret.val = 2
    /\ action_counter = 2
    /\ action_ids = <<1, 2>>

-----------------------------------------------------------------------------
\* the sum of balance_of over the addresses
RECURSIVE SumBalances(_, _)
SumBalances(bal, owners) ==
    IF owners = {} THEN 0
    ELSE LET o == CHOOSE x \in owners : TRUE
         IN  bal[o] + SumBalances(bal, owners \ {o})

\* C30: in the receipt contract the sum of balance_of over all owners equals
\* total_supply; total_supply never decreases and grows, by one, exactly on a
\* successful mint; the token ids are 0, 1, 2, .. in the order of minting and
\* mint returns them; a successful transfer lowers the sender's balance by 1
\* and raises the receiver's by 1; total_supply and balance_of return the
\* counter and the stored balance.
C30_NftBalances ==
    /\ [](/\ SumBalances(owner_balance, Addresses) = token_counter
          /\ Len(nfts) = token_counter
          /\ \A i \in 1..Len(nfts) : nfts[i].token_id = i - 1
          /\ (ret.op = "total_supply") => ret.val = token_counter
          /\ (ret.op = "balance_of") => ret.val = owner_balance[ret.party]
          /\ (ret.op = "mint" /\ ret.err = "") => ret.val = token_counter - 1)
    /\ [][ /\ token_counter' >= token_counter
           /\ (token_counter' # token_counter) <=>
                  (ret'.op = "mint" /\ ret'.err = "")
           /\ (ret'.op = "mint" /\ ret'.err = "") =>
                  /\ token_counter' = token_counter + 1
                  /\ owner_balance' =
                         [owner_balance EXCEPT ![ret'.party] = @ + 1]
           /\ (ret'.op = "transfer" /\ ret'.err = "") =>
                  /\ owner_balance'[ret'.id] = owner_balance[ret'.id] - 1
                  /\ owner_balance'[ret'.party] = owner_balance[ret'.party] + 1
           /\ (ret'.op = "settle") => owner_balance' = owner_balance
         ]_vars

-----------------------------------------------------------------------------
\* C31: a transfer of a receipt that is still active is rejected and leaves
\* the receipts and the balances unchanged, so a transfer that succeeds is of
\* a settled receipt.
C31_ActiveLocked ==
    [][ (ret'.op = "transfer" /\ ret'.amount + 1 <= Len(nfts)
            /\ nfts[ret'.amount + 1].is_active) =>
           /\ ret'.err # ""
           /\ nfts' = nfts
           /\ owner_balance' = owner_balance
      ]_vars

\* C32: settle of a minted receipt succeeds exactly when the receipt is
\* active and now >= expires_at, and then only sets is_active to false;
\* otherwise it returns AlreadySettled (not active) or NotExpired and changes
\* nothing; in both cases total_supply, every balance and the owner stay;
\* and no step of any operation makes a settled receipt active again.
C32_NftSettle ==
    [][ /\ \A i \in 1..Len(nfts) :
             /\ i <= Len(nfts')
             /\ ~nfts[i].is_active => ~nfts'[i].is_active
        /\ (ret'.op = "settle" /\ ret'.amount + 1 <= Len(nfts)) =>
             LET i == ret'.amount + 1
             IN  /\ token_counter' = token_counter
                 /\ owner_balance' = owner_balance
                 /\ nfts'[i].owner = nfts[i].owner
                 /\ IF nfts[i].is_active /\ now >= nfts[i].expires_at
                    THEN /\ ret'.err = ""
                         /\ nfts' = [nfts EXCEPT ![i].is_active = FALSE]
                    ELSE /\ ret'.err = IF ~nfts[i].is_active THEN "AlreadySettled"
                                       ELSE "NotExpired"
                         /\ nfts' = nfts
      ]_vars

\* C32 witness: bob's receipt was settled at its expiry, beside an active
\* one of alice, and the balances are as before.
C32_Witness ==
    /\ ret.op = "settle"
    /\ ret.err = ""
    /\ ret.amount + 1 <= Len(nfts)
    /\ nfts[ret.amount + 1].owner = "bob"
    /\ ~nfts[ret.amount + 1].is_active
    /\ nfts[ret.amount + 1].expires_at = now
    /\ owner_balance["bob"] = 1
    /\ \E i \in 1..Len(nfts) : nfts[i].is_active /\ nfts[i].owner = "alice"

-----------------------------------------------------------------------------
\* C33: a stored price changes only by a set_price that succeeds, signed by
\* a caller on the whitelist; a set_price by a caller not on the whitelist
\* fails and leaves the prices unchanged; the whitelist changes only by an
\* add_oracle or remove_oracle that succeeds, signed by the admin, which
\* adds or removes the address named.
C33_WhitelistedPrices ==
    [][ /\ (prices' # prices) =>
               /\ ret'.op = "set_price" /\ ret'.err = ""
               /\ ret'.id \in oracle_whitelist
               /\ ret'.invoker = ret'.id
        /\ (ret'.op = "set_price" /\ ret'.id \notin oracle_whitelist) =>
               /\ ret'.err # ""
               /\ prices' = prices
        /\ (oracle_whitelist' # oracle_whitelist) =>
               /\ ret'.op \in {"add_oracle", "remove_oracle"} /\ ret'.err = ""
               /\ ret'.id = oracle_admin
               /\ ret'.invoker = ret'.id
        /\ (ret'.op = "add_oracle" /\ ret'.err = "") =>
               oracle_whitelist' = oracle_whitelist \cup {ret'.party}
        /\ (ret'.op = "remove_oracle" /\ ret'.err = "") =>
               oracle_whitelist' = oracle_whitelist \ {ret'.party}
        /\ (ret'.op \in {"add_oracle", "remove_oracle"} /\ ret'.id # oracle_admin) =>
               /\ ret'.err # ""
               /\ oracle_whitelist' = oracle_whitelist
      ]_vars

\* C33 witness: a price of 100 was pushed while somebody was whitelisted;
\* the whitelist has since been emptied, and alice's signed set_price of 0
\* was rejected, the price still 100.
C33_Witness ==
    /\ ret.op = "set_price"
    /\ ret.err = "Oracle not whitelisted"
    /\ ret.id = "alice" /\ ret.invoker = "alice"
    /\ ret.amount = 0
    /\ oracle_whitelist = {}
    /\ prices[ret.party].set
    /\ prices[ret.party].price = 100

\* C34: with nothing but initialize the default max_staleness is 3600, and
\* only the admin's set_max_staleness changes it; get_price_valid returns
\* the stored price exactly when one was set for the asset and 0 <= now -
\* updated_at <= max_staleness, max_staleness being the override when one is
\* given and the default otherwise; it returns PriceNotFound when none was
\* set and StalePrice when the price is older.
C34_GetPriceValid ==
    /\ max_staleness_seconds = 3600
    /\ []((ret.op = "get_price_valid") =>
            LET data == prices[ret.party]
                max_staleness == IF ret.nested = "some" THEN ret.amount
                                 ELSE max_staleness_seconds
                age == now - data.updated_at
                fresh == data.set /\ 0 <= age /\ age <= max_staleness
            IN  /\ (ret.err = "") <=> fresh
                /\ (ret.err = "") => ret.val = data
                /\ ~data.set => ret.err = "PriceNotFound"
                /\ (data.set /\ ~fresh) => ret.err = "StalePrice")
    /\ [][ (max_staleness_seconds' # max_staleness_seconds) =>
               /\ ret'.op = "set_max_staleness" /\ ret'.err = ""
               /\ ret'.id = oracle_admin
               /\ max_staleness_seconds' = ret'.amount
         ]_vars

\* C34 witness: a price pushed 3600 seconds ago is returned under the
\* default of 3600.
C34_Witness ==
    /\ ret.op = "get_price_valid"
    /\ ret.err = ""
    /\ ret.nested = "none"
    /\ max_staleness_seconds = 3600
    /\ now - prices[ret.party].updated_at = 3600
    /\ ret.val.price = 100

-----------------------------------------------------------------------------
RECURSIVE SumActiveValues(_, _)
\* the sum of current_value over the active commitments among ids
SumActiveValues(cs, ids) ==
    IF ids = {} THEN 0
    ELSE LET id == CHOOSE i \in ids : TRUE
             here == IF cs[id] # NoCommitment /\ cs[id].status = "active"
                     THEN cs[id].current_value ELSE 0
         IN  here + SumActiveValues(cs, ids \ {id})

\* C35: the total value locked equals the sum of current_value over the
\* active commitments, and so is 0 when no commitment is active.
C35_TvlIsActiveValue ==
    total_value_locked = SumActiveValues(commitments, Ids)

-----------------------------------------------------------------------------
\* what the contract holds beyond the value of the active commitments
Excess(bal, cs) == bal[Core] - SumActiveValues(cs, Ids)

\* C38: the contract's token balance is at least the sum of current_value
\* over the active commitments, and the difference grows only by the penalty
\* an early_exit retains: a successful early_exit raises it by
\* current_value * early_exit_penalty / 100, every other step leaves it.
C38_Solvency ==
    /\ [](Excess(balance, commitments) >= 0)
    /\ [][ IF ret'.op = "early_exit" /\ ret'.err = ""
           THEN Excess(balance', commitments') =
                    Excess(balance, commitments)
                    + (commitments[ret'.id].current_value
                       * commitments[ret'.id].rules.early_exit_penalty) \div 100
           ELSE Excess(balance', commitments') = Excess(balance, commitments)
         ]_vars

\* C38 witness: after an allocation to the pool, an early exit paid out the
\* rest less the penalty, and the contract holds exactly the penalty retained.
C38_Witness ==
    /\ ret.op = "early_exit"
    /\ ret.err = ""
    /\ commitments[ret.id].status = "early_exit"
    /\ commitments[ret.id].current_value < commitments[ret.id].amount
    /\ balance[Pool] > 0
    /\ balance[Core] > 0
    /\ Excess(balance, commitments) = balance[Core]

-----------------------------------------------------------------------------
\* C39: for every stored commitment the early-exit penalty current_value *
\* early_exit_penalty / 100 lies between 0 and current_value, and an
\* early_exit of an active commitment, called and signed by its owner with
\* no callback, succeeds.
C39_ExitAlwaysPossible ==
    /\ [](\A id \in Ids :
            commitments[id] # NoCommitment =>
                LET penalty == (commitments[id].current_value
                                * commitments[id].rules.early_exit_penalty) \div 100
                IN  0 <= penalty /\ penalty <= commitments[id].current_value)
    /\ [][ (/\ ret'.op = "early_exit"
            /\ ret'.cb_at = "none"
            /\ commitments[ret'.id] # NoCommitment
            /\ commitments[ret'.id].status = "active"
            /\ ret'.party = commitments[ret'.id].owner
            /\ ret'.invoker = ret'.party) =>
               /\ ret'.err = ""
               /\ commitments'[ret'.id].status = "early_exit"
         ]_vars

-----------------------------------------------------------------------------
-----------------------------------------------------------------------------
\* C36: settle's preconditions are sufficient. Whatever was called before on
\* the ledger and on the receipt contract, a settle (whose token and receipt
\* calls do not call back) of an existing commitment that is active and
\* expired, with the reentrancy flag clear, succeeds and leaves the
\* commitment settled. (The ledger's settle names a commitment id, the receipt
\* contract's settle a token id.)
C36_SettleSucceeds ==
    [][(/\ ret'.op = "settle"
        /\ ret'.id \in Ids
        /\ ret'.cb_at = "none"
        /\ commitments[ret'.id] # NoCommitment
        /\ commitments[ret'.id].status = "active"
        /\ now >= commitments[ret'.id].expires_at
        /\ ~reentrancy_guard) =>
          /\ ret'.err = ""
          /\ commitments'[ret'.id].status = "settled"]_vars

-----------------------------------------------------------------------------
\* the principals record_fees and record_drawdown accept
AcceptedRecorders == {engine_admin} \cup authorized_recorders

\* C40: the engine is initialized at most once. After the first
\* initialize(admin, commitment_core) a further initialize is refused and
\* changes nothing; the stored admin and ledger address change in no call
\* signed by anyone but that admin; and the set of principals record_fees and
\* record_drawdown accept grows only in a call signed by the original admin.
C40_InitializedOnce ==
    [][/\ ret'.op = "initialize" =>
            /\ ret'.err # ""
            /\ UNCHANGED engine_storage
       /\ (engine_admin' # engine_admin \/ engine_core' # engine_core) =>
            ret'.invoker = engine_admin
       /\ ~(AcceptedRecorders' \subseteq AcceptedRecorders) =>
            ret'.invoker = Admin]_vars

====
